---------------------------- MODULE Spec2Model ----------------------------
(***************************************************************************)
(* Verification model of the PlutoOFDMTransceiver native codecs:           *)
(*   - Bitwrap   (native/Bitwrap/bitwrap.cpp, bitunwrap.cpp)               *)
(*   - RS container (native/Rs_Container/rs_container.c)                   *)
(*                                                                         *)
(* Part I models the bit wrap / unwrap codec bit-exactly: BitWriter,       *)
(* BitReader, BitKMP and the two entry points.  The Mersenne-Twister       *)
(* output used for the dummy bits is a nondeterministic byte per rng()     *)
(* call.                                                                   *)
(*                                                                         *)
(* Part II models the RS container at the real geometry (192 shards of 64  *)
(* bytes, r parity shards).  Byte values are kept symbolically: a byte of  *)
(* the container is identified by the frame and the offset in that frame's *)
(* virtual payload (data || parity || crcD || crcP) it was taken from by   *)
(* pack, and buffers are sets of runs of such bytes over a zero            *)
(* background.  CRC-16, CRC-32 and the Reed-Solomon code are ideal: a      *)
(* checksum matches exactly when the checked bytes are the bytes it was    *)
(* computed over, and a column decodes exactly when                        *)
(* 2 * errors + erasures <= r (libfec is not part of the sources; its      *)
(* decoder is taken from section 4.1 of the specification).                *)
(*                                                                         *)
(* Part III models the lazily initialised CRC-16 table of rs_container.c   *)
(* with its real values, for threads that call crc16_ccitt concurrently.   *)
(*                                                                         *)
(* Part IV feeds a BitKMP object of bitunwrap.cpp with arbitrary bits.     *)
(*                                                                         *)
(* Part V models the detection loop of the jammer detector                 *)
(* (native/Jammer_Deteciton: main.cpp, jd/detector.cpp,                    *)
(* jd/pluto_source.cpp) over a source that delivers frames of any power.   *)
(***************************************************************************)
EXTENDS Integers, Sequences, FiniteSets, TLC

VARIABLES
    \* ---- bit wrap / unwrap ------------------------------------------------
    in_bytes,               \* content of the file at in_path given to wrap
    start_flag_bits,        \* start pattern, a string of characters
    end_flag_bits,          \* end pattern, a string of characters
    dummy_left_bits,        \* wrap argument
    dummy_right_bits,       \* wrap argument
    w_pc,                   \* "idle" | "done" : wrap_file_bits not yet / already called
    w_ret,                  \* return code of wrap_file_bits
    w_file,                 \* bytes of the wrapped file (wrap's out_path)
    u_pc,                   \* position of unwrap_file_bits
    u_ret,                  \* return code of unwrap_file_bits
    br,                     \* BitReader state [pos_, bit_idx_, cur_byte_]
    bw,                     \* unwrap's BitWriter state [out, acc_, bit_off_]
    kmp_start,              \* BitKMP for the start pattern [pat_, lps_, j_]
    kmp_end,                \* BitKMP for the end pattern
    bit_index,              \* unwrap local: number of bits read so far
    tail,                   \* unwrap local: deque of deferred bits
    g_last_start_flag_pos,  \* process-wide
    g_last_end_flag_pos,    \* process-wide
    \* ---- RS container ----------------------------------------------------
    in_len,                 \* size of the input file given to pack
    in_kind,                \* content family of the input file
    a_r,                    \* pack argument r
    a_il_depth,             \* pack argument il_depth
    a_slice_bytes,          \* pack argument slice_bytes
    a_pad_mode,             \* unpack argument pad_mode
    g_cancel,               \* static volatile int g_cancel
    g_rs_stats,             \* static rs_stats_v1_t g_rs_stats
    pk,                     \* pack_impl: position and locals
    pk_ret,                 \* return code of rs_pack_container_ex
    cfile,                  \* the container file
    un,                     \* rs_unpack_internal: position and locals
    un_ret,                 \* return code of rs_unpack_container_ex
    tab,                    \* rs_unpack_internal: frame_buf_t tab[F]
    ofile,                  \* the output file of unpack
    ch,                     \* what the channel did to the container
    prev,                   \* results of the preceding unpack run, if any
    held,                   \* what pack and unpack have acquired and not released
    \* ---- CRC-16 table of rs_container.c ----------------------------------
    crc16_table,            \* static uint16_t crc16_table[256]
    crc16_init_done,        \* static int crc16_init_done
    thr,                    \* threads calling crc16_ccitt: position and locals
    \* ---- a BitKMP object fed bit by bit ------------------------------------
    kmp,                    \* the BitKMP object [pat_, lps_, j_]
    fed,                    \* the bits passed to feed so far
    hit,                    \* what the last call of feed returned
    \* ---- jammer detector ---------------------------------------------------
    g_stop,                 \* main.cpp: static std::atomic<bool> g_stop
    rxbuf_,                 \* PlutoSource::rxbuf_ is not null
    p_,                     \* JammerDetector::p_ (the detection parameters)
    main_pc,                \* position of main: "loop" | "pass" | "publish"
    det,                    \* Detector::run: position and locals
    out,                    \* what the last run_detection returned
    seen,                   \* the reads of get_frame in the current pass
    passes                  \* number of calls of run_detection so far

bitVars == << in_bytes, start_flag_bits, end_flag_bits, dummy_left_bits,
              dummy_right_bits, w_pc, w_ret, w_file, u_pc, u_ret, br, bw,
              kmp_start, kmp_end, bit_index, tail,
              g_last_start_flag_pos, g_last_end_flag_pos >>

rsVars == << in_len, in_kind, a_r, a_il_depth, a_slice_bytes, a_pad_mode,
             g_cancel, g_rs_stats, pk, pk_ret, cfile, un, un_ret, tab, ofile,
             ch, prev, held >>

crcVars == << crc16_table, crc16_init_done, thr >>

kmpVars == << kmp, fed, hit >>

jdVars == << g_stop, rxbuf_, p_, main_pc, det, out, seen, passes >>

vars == << bitVars, rsVars, crcVars, kmpVars, jdVars >>

-----------------------------------------------------------------------------
(* Generic helpers                                                          *)

Min(a, b) == IF a < b THEN a ELSE b
Max(a, b) == IF a > b THEN a ELSE b

RECURSIVE Pow2(_)
Pow2(n) == IF n = 0 THEN 1 ELSE 2 * Pow2(n - 1)

\* bit b (7 = most significant) of the byte v:  (v >> b) & 1
BitOf(v, b) == (v \div Pow2(b)) % 2

\* the 8 bits of a byte, most significant first
ByteBits(v) == [i \in 1..8 |-> BitOf(v, 8 - i)]

RECURSIVE BytesToBits(_)
BytesToBits(bytes) ==
    IF bytes = << >> THEN << >>
    ELSE ByteBits(Head(bytes)) \o BytesToBits(Tail(bytes))

-----------------------------------------------------------------------------
(* bitwrap.cpp : BitWriter                                                  *)

BitWriterInit == [out |-> << >>, acc_ |-> 0, bit_off_ |-> 0]

\* out_.put(acc_); acc_ = 0; bit_off_ = 0
flush_byte_(w) == [out |-> Append(w.out, w.acc_), acc_ |-> 0, bit_off_ |-> 0]

\* acc_ |= (b & 1) << (7 - bit_off_); if (++bit_off_ == 8) flush_byte_()
write_bit(w, b) ==
    LET sh  == 7 - w.bit_off_
        acc == IF (b % 2) = 1 /\ BitOf(w.acc_, sh) = 0
               THEN w.acc_ + Pow2(sh) ELSE w.acc_
        w1  == [w EXCEPT !.acc_ = acc, !.bit_off_ = w.bit_off_ + 1]
    IN  IF w1.bit_off_ = 8 THEN flush_byte_(w1) ELSE w1

\* for (i = 0; i < n; ++i) write_bit(bits[i]);  i counts the bits written
RECURSIVE write_bits_from(_, _, _)
write_bits_from(w, bits, i) ==
    IF i >= Len(bits) THEN w
    ELSE LET w1 == write_bit(w, bits[i + 1])
         IN  IF w1.bit_off_ < 8 THEN write_bits_from(w1, bits, i + 1) ELSE w1

write_bits(w, bits) == write_bits_from(w, bits, 0)

\* for each byte: for (b = 7; b >= 0; --b) write_bit((v >> b) & 1)
RECURSIVE write_bytes_from(_, _, _)
write_bytes_from(w, bytes, i) ==
    IF i >= Len(bytes) THEN w
    ELSE LET w1 == write_bits(w, ByteBits(bytes[i + 1]))
         IN  IF w1.bit_off_ < 8 THEN write_bytes_from(w1, bytes, i + 1) ELSE w1

write_bytes_as_bits_(w, bytes) == write_bytes_from(w, bytes, 0)

\* a write_full_bytes that takes the fast path whatever bit_off_ is
write_full_bytes_always_fast(w, bytes) == [w EXCEPT !.out = w.out \o bytes]

\* fast path when aligned: the bytes go to the stream verbatim
write_full_bytes(w, bytes) ==
    IF w.bit_off_ = 0 THEN [w EXCEPT !.out = w.out \o bytes]
    ELSE write_bytes_as_bits_(w, bytes)

\* if (bit_off_ == 0) return; while (bit_off_ != 0) write_bit(0);
RECURSIVE pad_to_byte(_)
pad_to_byte(w) ==
    IF w.bit_off_ = 0 THEN w ELSE pad_to_byte(write_bit(w, 0))

-----------------------------------------------------------------------------
(* parse_bitstring_ (same text in bitwrap.cpp and bitunwrap.cpp)            *)

\* a string is a sequence of characters; a character other than '0'/'1' throws
BadBitstring(s) == \E i \in 1..Len(s) : s[i] \notin {"0", "1"}
parse_bitstring_(s) == [i \in 1..Len(s) |-> IF s[i] = "1" THEN 1 ELSE 0]

-----------------------------------------------------------------------------
(* bitwrap.cpp : write_dummy_bits_ and wrap_file_bits                       *)

\* rngs is the sequence of values rng() & 0xFF returned by the successive
\* calls: nbits / 8 whole bytes through write_full_bytes, then the top
\* nbits % 8 bits of one further value through write_bit.
write_dummy_bits_(w, nbits, rngs) ==
    IF nbits = 0 THEN w
    ELSE LET full_bytes == nbits \div 8
             tail_bits  == nbits % 8
             w1 == IF full_bytes > 0
                   THEN write_full_bytes(w, SubSeq(rngs, 1, full_bytes))
                   ELSE w
         IN  IF tail_bits # 0
             THEN LET last == rngs[full_bytes + 1]
                  IN  write_bits(w1, [i \in 1..tail_bits |-> BitOf(last, 8 - i)])
             ELSE w1

\* number of rng() calls write_dummy_bits_ makes for nbits
RngCalls(nbits) == (nbits \div 8) + (IF nbits % 8 # 0 THEN 1 ELSE 0)

\* the BitWriter after the whole body of wrap_file_bits
WrapWriter(input, sbits, ebits, nl, nr, rl, rr) ==
    LET w1 == write_dummy_bits_(BitWriterInit, nl, rl)
        w2 == IF sbits # << >> THEN write_bits(w1, sbits) ELSE w1
        w3 == IF input # << >> THEN write_full_bytes(w2, input) ELSE w2
        w4 == IF ebits # << >> THEN write_bits(w3, ebits) ELSE w3
        w5 == write_dummy_bits_(w4, nr, rr)
    IN  pad_to_byte(w5)


-----------------------------------------------------------------------------
(* bitunwrap.cpp : BitWriter (no write_full_bytes), BitReader, BitKMP       *)

\* a flush that drops the byte
uw_flush_byte_discards(w) == [out |-> w.out, acc_ |-> 0, bit_off_ |-> 0]

\* out_.put(acc_); acc_ = 0; bit_off_ = 0
uw_flush_byte_(w) == [out |-> Append(w.out, w.acc_), acc_ |-> 0, bit_off_ |-> 0]

uw_write_bit(w, b) ==
    LET sh  == 7 - w.bit_off_
        acc == IF (b % 2) = 1 /\ BitOf(w.acc_, sh) = 0
               THEN w.acc_ + Pow2(sh) ELSE w.acc_
        w1  == [w EXCEPT !.acc_ = acc, !.bit_off_ = w.bit_off_ + 1]
    IN  IF w1.bit_off_ = 8 THEN uw_flush_byte_(w1) ELSE w1

\* while (!tail.empty()) { bw.write_bit(tail.front()); tail.pop_front(); }
RECURSIVE uw_write_bits_from(_, _, _)
uw_write_bits_from(w, bits, i) ==
    IF i >= Len(bits) THEN w
    ELSE LET w1 == uw_write_bit(w, bits[i + 1])
         IN  IF w1.bit_off_ < 8 THEN uw_write_bits_from(w1, bits, i + 1) ELSE w1

uw_write_bits(w, bits) == uw_write_bits_from(w, bits, 0)

RECURSIVE uw_pad_to_byte(_)
uw_pad_to_byte(w) ==
    IF w.bit_off_ = 0 THEN w ELSE uw_pad_to_byte(uw_write_bit(w, 0))

\* BitReader(in, buf_bytes): pos_(0), filled_(0), bit_idx_(8).  The 8 MiB
\* refill buffer is the file itself: pos_ counts the bytes consumed.
BitReaderInit == [pos_ |-> 0, bit_idx_ |-> 8, cur_byte_ |-> 0]

\* mutant of next_bit: the bits of a byte are taken least significant first
next_bit_lsb_first(rd, file) ==
    IF rd.bit_idx_ >= 8 /\ rd.pos_ >= Len(file)
    THEN [bit |-> -1, rd |-> rd]
    ELSE LET r1 == IF rd.bit_idx_ >= 8
                   THEN [pos_ |-> rd.pos_ + 1, bit_idx_ |-> 0,
                         cur_byte_ |-> file[rd.pos_ + 1]]
                   ELSE rd
         IN  [bit |-> BitOf(r1.cur_byte_, r1.bit_idx_),
              rd  |-> [r1 EXCEPT !.bit_idx_ = r1.bit_idx_ + 1]]

\* next_bit(): [bit |-> 0/1 or -1 at EOF, rd |-> the reader afterwards]
next_bit(rd, file) ==
    IF rd.bit_idx_ >= 8 /\ rd.pos_ >= Len(file)
    THEN [bit |-> -1, rd |-> rd]
    ELSE LET r1 == IF rd.bit_idx_ >= 8
                   THEN [pos_ |-> rd.pos_ + 1, bit_idx_ |-> 0,
                         cur_byte_ |-> file[rd.pos_ + 1]]
                   ELSE rd
         IN  [bit |-> BitOf(r1.cur_byte_, 7 - r1.bit_idx_),
              rd  |-> [r1 EXCEPT !.bit_idx_ = r1.bit_idx_ + 1]]

\* the loop of BitKMP::reset: for (i = 1, len = 0; i < n; ) ...
\* lps is kept 1-based here: lps[i + 1] is the source's lps_[i]
RECURSIVE LpsLoop(_, _, _, _)
LpsLoop(pat, lps, i, len) ==
    IF i >= Len(pat) THEN lps
    ELSE IF pat[i + 1] = pat[len + 1]
         THEN LpsLoop(pat, [lps EXCEPT ![i + 1] = len + 1], i + 1, len + 1)
         ELSE IF len # 0
              THEN LpsLoop(pat, lps, i, lps[len])
              ELSE LpsLoop(pat, [lps EXCEPT ![i + 1] = 0], i + 1, len)

BitKMP_reset(pat) ==
    [pat_ |-> pat,
     lps_ |-> LpsLoop(pat, [i \in 1..Len(pat) |-> 0], 1, 0),
     j_   |-> 0]

\* while (j_ > 0 && b != pat_[j_]) j_ = lps_[j_ - 1];
RECURSIVE KmpFallback(_, _, _)
KmpFallback(k, j, b) ==
    IF j > 0 /\ b # k.pat_[j + 1] THEN KmpFallback(k, k.lps_[j], b) ELSE j

\* a matcher that starts from scratch after a match
BitKMP_feed_restarts(k, b) ==
    LET j == KmpFallback(k, k.j_, b)
    IN  IF b = k.pat_[j + 1]
        THEN IF j + 1 = Len(k.pat_)
             THEN [hit |-> TRUE,  k |-> [k EXCEPT !.j_ = 0]]
             ELSE [hit |-> FALSE, k |-> [k EXCEPT !.j_ = j + 1]]
        ELSE [hit |-> FALSE, k |-> [k EXCEPT !.j_ = j]]

\* BitKMP::feed: [hit |-> the returned bool, k |-> the matcher afterwards]
BitKMP_feed(k, b) ==
    LET j == KmpFallback(k, k.j_, b)
    IN  IF b = k.pat_[j + 1]
        THEN IF j + 1 = Len(k.pat_)
             THEN [hit |-> TRUE,  k |-> [k EXCEPT !.j_ = k.lps_[j + 1]]]
             ELSE [hit |-> FALSE, k |-> [k EXCEPT !.j_ = j + 1]]
        ELSE [hit |-> FALSE, k |-> [k EXCEPT !.j_ = j]]

\* a window one bit shorter than the pattern
need_one_less(k) == Len(k.pat_) - 1

\* BitKMP::need
need(k) == Len(k.pat_)

-----------------------------------------------------------------------------
(* Bounds and input families of the bit codec                               *)

MaxPat   == 2      \* longest start / end pattern of the small family
MaxIn    == 1      \* longest input file (bytes) of the small family
MaxDummy == 1      \* largest dummy_left_bits / dummy_right_bits of the small family

\* byte values the small family's input files are made of
ByteAlphabet == {0, 165}

RECURSIVE SeqsUpTo(_, _)
SeqsUpTo(S, n) ==
    IF n = 0 THEN {<< >>}
    ELSE LET shorter == SeqsUpTo(S, n - 1)
         IN  shorter \cup {Append(q, x) : q \in {t \in shorter : Len(t) = n - 1}, x \in S}

\* pattern strings: every 0/1 string up to MaxPat characters (the empty one
\* included) and one string holding a character that is not '0' or '1'
PatStrings == SeqsUpTo({"0", "1"}, MaxPat) \cup {<<"x">>}

\* values rng() & 0xFF can take: any byte.  Of the value drawn for the
\* trailing nbits % 8 bits only the top bits are used, so one representative
\* per value of those bits is enumerated; whole dummy bytes are sampled.
RngFull == {0, 165, 255}
RngTail(t) == {k * Pow2(8 - t) : k \in 0..(Pow2(t) - 1)}
RngSeqs(nbits) ==
    LET fb == nbits \div 8
        tb == nbits % 8
    IN  IF tb = 0 THEN [1..fb -> RngFull]
        ELSE {Append(q, x) : q \in [1..fb -> RngFull], x \in RngTail(tb)}

-----------------------------------------------------------------------------
(* Actions of the bit codec                                                 *)

BitIdle ==
    /\ w_pc = "idle" /\ w_ret = 0 /\ w_file = << >>
    /\ u_pc = "idle" /\ u_ret = 0
    /\ br = BitReaderInit /\ bw = BitWriterInit
    /\ kmp_start = BitKMP_reset(<< >>) /\ kmp_end = BitKMP_reset(<< >>)
    /\ bit_index = 0 /\ tail = << >>
    /\ g_last_start_flag_pos = 0 /\ g_last_end_flag_pos = 0

\* wrap_file_bits(in, out, start, end, dummy_left_bits, dummy_right_bits, seed)
wrap_file_bits ==
    /\ w_pc = "idle"
    /\ w_pc' = "done"
    /\ IF BadBitstring(start_flag_bits) \/ BadBitstring(end_flag_bits)
       THEN /\ w_ret' = -3
            /\ w_file' = << >>
       ELSE \E rl \in RngSeqs(dummy_left_bits), rr \in RngSeqs(dummy_right_bits) :
              /\ w_ret' = 0
              /\ w_file' = WrapWriter(in_bytes,
                                      parse_bitstring_(start_flag_bits),
                                      parse_bitstring_(end_flag_bits),
                                      dummy_left_bits, dummy_right_bits, rl, rr).out
    /\ UNCHANGED << in_bytes, start_flag_bits, end_flag_bits, dummy_left_bits,
                    dummy_right_bits, u_pc, u_ret, br, bw, kmp_start, kmp_end,
                    bit_index, tail, g_last_start_flag_pos, g_last_end_flag_pos >>
    /\ UNCHANGED << rsVars, crcVars, kmpVars, jdVars >>

\* unwrap_file_bits, entry up to the first loop (run on wrap's output with
\* the patterns wrap was given)
unwrap_file_bits ==
    /\ w_pc = "done" /\ w_ret = 0
    /\ u_pc = "idle"
    /\ g_last_start_flag_pos' = 0
    /\ g_last_end_flag_pos' = 0
    /\ br' = BitReaderInit
    /\ bw' = BitWriterInit
    /\ bit_index' = 0
    /\ tail' = << >>
    /\ IF BadBitstring(start_flag_bits) \/ BadBitstring(end_flag_bits)
          \/ start_flag_bits = << >> \/ end_flag_bits = << >>
       THEN /\ u_ret' = -3
            /\ u_pc' = "done"
            /\ UNCHANGED << kmp_start, kmp_end >>
       ELSE /\ kmp_start' = BitKMP_reset(parse_bitstring_(start_flag_bits))
            /\ kmp_end'   = BitKMP_reset(parse_bitstring_(end_flag_bits))
            /\ u_ret' = 0
            /\ u_pc' = "scan_start"
    /\ UNCHANGED << in_bytes, start_flag_bits, end_flag_bits, dummy_left_bits,
                    dummy_right_bits, w_pc, w_ret, w_file >>
    /\ UNCHANGED << rsVars, crcVars, kmpVars, jdVars >>

\* one iteration of the first while (true) of unwrap_file_bits
ScanStartStep ==
    /\ u_pc = "scan_start"
    /\ LET nb == next_bit(br, w_file)
       IN  IF nb.bit < 0
           THEN /\ u_ret' = -4                      \* if (!found_start) return -4
                /\ u_pc' = "done"
                /\ UNCHANGED << br, bit_index, kmp_start, g_last_start_flag_pos >>
           ELSE LET f == BitKMP_feed(kmp_start, nb.bit)
                IN  /\ br' = nb.rd
                    /\ bit_index' = bit_index + 1
                    /\ kmp_start' = f.k
                    /\ IF f.hit
                       THEN /\ g_last_start_flag_pos' = bit_index' - Len(kmp_start.pat_)
                            /\ u_pc' = "scan_end"
                       ELSE UNCHANGED << g_last_start_flag_pos, u_pc >>
                    /\ UNCHANGED u_ret
    /\ UNCHANGED << in_bytes, start_flag_bits, end_flag_bits, dummy_left_bits,
                    dummy_right_bits, w_pc, w_ret, w_file, bw, kmp_end, tail,
                    g_last_end_flag_pos >>
    /\ UNCHANGED << rsVars, crcVars, kmpVars, jdVars >>

\* a match branch that always takes the clear-all fallback
TrimTail_clears_all(t, Lend) == << >>

\* mutant of TrimTail: the sentinel bits are left in the deque
TrimTail_keeps_sentinel(t, Lend) == t

\* the last Lend bits of the deque are popped, or the deque is cleared
TrimTail(t, Lend) == IF Len(t) >= Lend THEN SubSeq(t, 1, Len(t) - Lend) ELSE << >>

\* one iteration of the second while (true); on a match also the code after
\* the loop (flush of the deque, pad_to_byte, return 0)
ScanEndStep ==
    /\ u_pc = "scan_end"
    /\ LET nb == next_bit(br, w_file)
       IN  IF nb.bit < 0
           THEN /\ u_ret' = -4                      \* if (!found_end) return -4
                /\ u_pc' = "done"
                /\ UNCHANGED << br, bit_index, kmp_end, tail, bw, g_last_end_flag_pos >>
           ELSE LET f  == BitKMP_feed(kmp_end, nb.bit)
                    t1 == Append(tail, nb.bit)
                    Lend == need(kmp_end)
                IN  /\ br' = nb.rd
                    /\ bit_index' = bit_index + 1
                    /\ kmp_end' = f.k
                    /\ IF f.hit
                       THEN /\ g_last_end_flag_pos' = bit_index' - Len(kmp_end.pat_)
                            /\ bw' = uw_pad_to_byte(uw_write_bits(bw, TrimTail(t1, Lend)))
                            /\ tail' = << >>
                            /\ u_ret' = 0
                            /\ u_pc' = "done"
                       ELSE /\ IF Len(t1) > Lend
                               THEN /\ bw' = uw_write_bit(bw, Head(t1))
                                    /\ tail' = Tail(t1)
                               ELSE /\ bw' = bw
                                    /\ tail' = t1
                            /\ UNCHANGED << g_last_end_flag_pos, u_ret, u_pc >>
    /\ UNCHANGED << in_bytes, start_flag_bits, end_flag_bits, dummy_left_bits,
                    dummy_right_bits, w_pc, w_ret, w_file, kmp_start,
                    g_last_start_flag_pos >>
    /\ UNCHANGED << rsVars, crcVars, kmpVars, jdVars >>

BitNext ==
    \/ wrap_file_bits
    \/ unwrap_file_bits
    \/ ScanStartStep
    \/ ScanEndStep

\* the wrapped file reaches unwrap_file_bits without its last bytes
CutWrappedFile ==
    /\ w_pc = "done" /\ w_ret = 0
    /\ u_pc = "idle"
    /\ \E n \in 0..(Len(w_file) - 1) : w_file' = SubSeq(w_file, 1, n)
    /\ UNCHANGED << in_bytes, start_flag_bits, end_flag_bits, dummy_left_bits,
                    dummy_right_bits, w_pc, w_ret, u_pc, u_ret, br, bw, kmp_start,
                    kmp_end, bit_index, tail, g_last_start_flag_pos,
                    g_last_end_flag_pos >>
    /\ UNCHANGED << rsVars, crcVars, kmpVars, jdVars >>

-----------------------------------------------------------------------------
(* PART II.  rs_container.c : constants, headers, layout                    *)

K_SHARDS            == 192
SHARD_LEN           == 64
FRAME_BYTES         == K_SHARDS * SHARD_LEN
MAX_R               == 63
IL_DEPTH_DEFAULT    == 16
SLICE_BYTES_DEFAULT == 512
RS_PAD_MODE         == 0
R_DEFAULT           == 16

\* sizeof of the three packed structures
sizeof_rsct_header_v4_t == 36
sizeof_frame_hdr_v4_t   == 24
sizeof_slice_hdr_v4_t   == 22

\* g_residual_coeff = RS_RESIDUAL_COEFF_DEFAULT (0.40), in percent
RS_RESIDUAL_COEFF_DEFAULT == 40

\* the casts (uint16_t)x
U16(x) == x % 65536

compute_pad(r) == 255 - (K_SHARDS + r)

\* a payload without the two CRC-16 tables
payload_len_without_tables(r) == FRAME_BYTES + r * SHARD_LEN

payload_len_bytes(r) == FRAME_BYTES + r * SHARD_LEN + K_SHARDS * 2 + r * 2

\* memset(&g_rs_stats, 0, sizeof(g_rs_stats)); ber_est is kept as the pair
\* residual_bad_bytes_est / total_written_bytes (<<0, 1>> is 0.0)
rs_stats_reset ==
    [frames_total |-> 0, slices_total_est |-> 0, slices_ok |-> 0,
     slices_bad |-> 0, codewords_total |-> 0, symbols_total |-> 0,
     data_symbols_total |-> 0, corrected_symbols |-> 0,
     used_erasures_cols |-> 0, rs_fail_columns |-> 0, pad_mode_used |-> 0,
     ser_rs |-> 0, ber_est |-> <<0, 1>>]

-----------------------------------------------------------------------------
(* The input file and the bytes pack derives from it                        *)

\* content families of the input file: all zero bytes; no zero byte at
\* all; non-zero bytes only at offsets that are multiples of SHARD_LEN
\* (so only column 0 of a frame is non-zero)
InKinds == {"zero", "ramp", "sparse"}

\* byte i of the input file
InByte(i) ==
    CASE in_kind = "zero"   -> 0
      [] in_kind = "ramp"   -> 1 + (i % 251)
      [] in_kind = "sparse" -> IF i % SHARD_LEN = 0 THEN 1 + ((i \div SHARD_LEN) % 251) ELSE 0

\* a frame count that is never zero
FramesOf_at_least_one(orig) == orig \div FRAME_BYTES + 1

\* frames = (orig + FRAME_BYTES - 1) / FRAME_BYTES
FramesOf(orig) == (orig + FRAME_BYTES - 1) \div FRAME_BYTES

\* to_read of frame fidx: FRAME_BYTES, or what remains for the last frame
to_read_of(orig, frames, fidx) ==
    IF fidx = frames - 1 /\ orig - fidx * FRAME_BYTES < FRAME_BYTES
    THEN orig - fidx * FRAME_BYTES
    ELSE FRAME_BYTES

\* buf_data[gi][o] of frame f after fread and the two memsets
DataByte(f, o) ==
    IF o < to_read_of(in_len, FramesOf(in_len), f) /\ f * FRAME_BYTES + o < in_len
    THEN InByte(f * FRAME_BYTES + o)
    ELSE 0

\* column i of frame f holds only zero data bytes: its parity symbols are
\* zero (the code is linear)
ColumnZero(f, i) == \A j \in 0..(K_SHARDS - 1) : DataByte(f, j * SHARD_LEN + i) = 0

\* A byte of a frame's parity block or CRC-16 tables is not computed; it is
\* named by the frame and the offset in the virtual payload it stands at
\* (a negative number, distinct from every byte value and from every other
\* such byte).
Opaque(f, o) == 0 - (1 + f * 65536 + o)

\* value of byte o of the virtual payload (data || parity || crcD || crcP)
\* pack built for frame f with r parity shards; f < 0 names bytes that pack
\* did not write (a payload altered on the way)
TxVal(f, o, r) ==
    IF f < 0 THEN Opaque(16384, o)
    ELSE IF o < FRAME_BYTES THEN DataByte(f, o)
    ELSE IF o < FRAME_BYTES + r * SHARD_LEN /\ ColumnZero(f, (o - FRAME_BYTES) % SHARD_LEN)
         THEN 0
         ELSE Opaque(f, o)

-----------------------------------------------------------------------------
(* Byte blocks and buffers                                                  *)

\* A block of bytes is a sequence of pieces [n, f, o]: n bytes that are the
\* bytes o .. o+n-1 of frame f's virtual payload.
Piece(n, f, o) == [n |-> n, f |-> f, o |-> o]

RECURSIVE PiecesLen(_)
PiecesLen(ps) == IF ps = << >> THEN 0 ELSE Head(ps).n + PiecesLen(Tail(ps))

\* the bytes from .. from+len-1 of a block (src + from, len)
RECURSIVE SubPieces(_, _, _)
SubPieces(ps, from, len) ==
    IF len <= 0 \/ ps = << >> THEN << >>
    ELSE LET h == Head(ps)
         IN  IF from >= h.n THEN SubPieces(Tail(ps), from - h.n, len)
             ELSE LET take == Min(len, h.n - from)
                  IN  << Piece(take, h.f, h.o + from) >>
                         \o SubPieces(Tail(ps), 0, len - take)

\* A buffer obtained from calloc is a set of runs [lo, n, f, o] over a zero
\* background: bytes lo .. lo+n-1 of the buffer hold bytes o .. o+n-1 of
\* frame f's virtual payload.  Runs never overlap and adjacent runs that
\* continue each other are merged.
ClipRuns(runs, lo, hi) ==
    UNION { (IF q.lo < lo
             THEN {[lo |-> q.lo, n |-> Min(q.n, lo - q.lo), f |-> q.f, o |-> q.o]}
             ELSE {})
            \cup
            (IF q.lo + q.n > hi
             THEN LET s == Max(q.lo, hi)
                  IN  {[lo |-> s, n |-> q.lo + q.n - s, f |-> q.f, o |-> q.o + (s - q.lo)]}
             ELSE {}) : q \in runs }

\* memcpy(buf + lo, piece, piece.n)
PutRun(runs, lo, p) ==
    LET c  == ClipRuns(runs, lo, lo + p.n)
        L  == {q \in c : q.lo + q.n = lo /\ q.f = p.f /\ q.o + q.n = p.o}
        R  == {q \in c : q.lo = lo + p.n /\ q.f = p.f /\ q.o = p.o + p.n}
        nl == IF L = {} THEN 0 ELSE (CHOOSE q \in L : TRUE).n
        nr == IF R = {} THEN 0 ELSE (CHOOSE q \in R : TRUE).n
    IN  IF p.n = 0 THEN runs
        ELSE ((c \ L) \ R) \cup
             {[lo |-> lo - nl, n |-> nl + p.n + nr, f |-> p.f, o |-> p.o - nl]}

\* memcpy(buf + lo, block, PiecesLen(block))
RECURSIVE StoreRuns(_, _, _)
StoreRuns(runs, lo, ps) ==
    IF ps = << >> THEN runs
    ELSE LET r1 == PutRun(runs, lo, Head(ps))
         IN  IF r1 = r1 THEN StoreRuns(r1, lo + Head(ps).n, Tail(ps)) ELSE r1

\* the run holding byte x of a buffer, as a set (empty: the byte is still zero)
RunAt(runs, x) == {q \in runs : q.lo <= x /\ x < q.lo + q.n}

\* value of byte x of a buffer
BufVal(runs, x, r) ==
    LET cov == RunAt(runs, x)
    IN  IF cov = {} THEN 0
        ELSE LET q == CHOOSE t \in cov : TRUE
             IN  TxVal(q.f, q.o + (x - q.lo), r)

\* the 64 bytes of shard j of a buffer are one run's bytes: where they come
\* from, as a set of [f, o] (empty when the shard is not filled by one run)
ShardSrc(runs, j) ==
    {[f |-> q.f, o |-> q.o + (j * SHARD_LEN - q.lo)] :
        q \in {t \in runs : t.lo <= j * SHARD_LEN
                            /\ (j + 1) * SHARD_LEN <= t.lo + t.n}}

\* the 2 bytes of entry j of a CRC-16 table, likewise
EntrySrc(runs, j) ==
    {[f |-> q.f, o |-> q.o + (2 * j - q.lo)] :
        q \in {t \in runs : t.lo <= 2 * j /\ 2 * j + 2 <= t.lo + t.n}}

\* #if defined(free_rs_char) free_rs_char(rs); #else (void)rs; #endif
\* fec.h declares init_rs_char, encode_rs_char and decode_rs_char and
\* defines no macro free_rs_char: the branch compiled is (void)rs and the
\* set of resources released by it is empty
free_rs_char_defined == FALSE

free_rs_char(rs) == IF free_rs_char_defined THEN rs ELSE {}

-----------------------------------------------------------------------------
(* The container file                                                       *)

\* CRC-32 values are named by what they were computed over
NoCrc32 == [of |-> "none", f |-> 0]

NoHeader ==
    [magic |-> "none", version |-> 0, k |-> 0, r |-> 0, shard_len |-> 0,
     pad |-> 0, original_size |-> 0, frame_count |-> 0, il_depth |-> 0,
     slice_bytes |-> 0, reserved |-> 0]

\* The file is the global header, then records; a record is the bytes of a
\* frame_hdr_v4_t ("RSF4"), of a slice_hdr_v4_t and its payload ("RSL4"),
\* or other bytes holding no magic ("none").  at is the file offset of the
\* record, nbytes its length; size is the length of the file.  crc_ok says
\* that crc32_slice is the CRC-32 of the record's payload bytes; genuine
\* that pack wrote the record and nothing altered it.
FrameRec(at, fh) ==
    [magic |-> "RSF4", at |-> at, nbytes |-> sizeof_frame_hdr_v4_t,
     index |-> fh.index, data_len |-> fh.data_len, parity_len |-> fh.parity_len,
     crc32_data |-> fh.crc32_data, crc32_par |-> fh.crc32_par,
     offset |-> 0, size |-> 0, crc_ok |-> TRUE, pay |-> << >>, genuine |-> TRUE]

SliceRec(at, sh, pay) ==
    [magic |-> "RSL4", at |-> at, nbytes |-> sizeof_slice_hdr_v4_t + PiecesLen(pay),
     index |-> sh.frame_index, data_len |-> 0, parity_len |-> 0,
     crc32_data |-> NoCrc32, crc32_par |-> NoCrc32,
     offset |-> sh.offset, size |-> sh.size, crc_ok |-> TRUE, pay |-> pay,
     genuine |-> TRUE]

NoFile == [gh |-> NoHeader, recs |-> << >>, size |-> 0]

-----------------------------------------------------------------------------
(* pack_impl                                                                *)

\* init_rs_char(8, 0x11d, 1, 1, nroots, pad) returns a codec
init_rs_char_ok(nroots, pad) ==
    nroots >= 0 /\ nroots <= 255 /\ pad >= 0 /\ pad < 255 - nroots

PackIdle ==
    [pc |-> "idle", r |-> 0, D |-> 0, S |-> 0, PAY |-> 0, orig |-> 0,
     frames |-> 0, total_slices |-> 0, prog_slices |-> 0, fbase |-> 0,
     in_grp |-> 0, off |-> 0, fhdr |-> << >>]

\* the bytes ptmp receives from buf_data[gi], buf_par[gi], tab_crcD[gi] and
\* tab_crcP[gi] of frame fidx for the slice at off (the four copies)
GatherSlice(fidx, r, off, chunk) ==
    LET par_bytes  == r * SHARD_LEN
        crcD_bytes == K_SHARDS * 2
        crcP_bytes == r * 2
        t1 == IF off < FRAME_BYTES THEN Min(chunk, FRAME_BYTES - off) ELSE 0
        c1 == t1
        g2 == off + c1 < FRAME_BYTES + par_bytes /\ c1 < chunk /\ off + c1 >= FRAME_BYTES
        s2 == off + c1 - FRAME_BYTES
        t2 == IF g2 THEN Min(chunk - c1, par_bytes - s2) ELSE 0
        c2 == c1 + t2
        b3 == FRAME_BYTES + par_bytes
        g3 == off + c2 < b3 + crcD_bytes /\ c2 < chunk /\ off + c2 >= b3
        s3 == off + c2 - b3
        t3 == IF g3 THEN Min(chunk - c2, crcD_bytes - s3) ELSE 0
        c3 == c2 + t3
        b4 == b3 + crcD_bytes
        g4 == c3 < chunk /\ off + c3 >= b4
        s4 == off + c3 - b4
        t4 == IF g4 THEN Min(chunk - c3, crcP_bytes - s4) ELSE 0
    IN  SelectSeq(<< Piece(t1, fidx, off),
                     Piece(t2, fidx, FRAME_BYTES + s2),
                     Piece(t3, fidx, b3 + s3),
                     Piece(t4, fidx, b4 + s4) >>,
                  LAMBDA p : p.n > 0)

\* rs_pack_container_ex(input, container, r, il_depth, slice_bytes):
\* pack_impl from its entry to the first test of the while loop
rs_pack_container_ex ==
    /\ pk.pc = "idle"
    /\ LET r      == IF a_r <= 0 \/ a_r > MAX_R THEN R_DEFAULT ELSE a_r
           il     == IF a_il_depth <= 0 THEN IL_DEPTH_DEFAULT ELSE a_il_depth
           sb     == IF a_slice_bytes <= 0 THEN SLICE_BYTES_DEFAULT ELSE a_slice_bytes
           pad    == compute_pad(r)
           orig   == in_len
           frames == FramesOf(orig)
           gh     == [magic |-> "RSCT", version |-> 4, k |-> K_SHARDS, r |-> U16(r),
                      shard_len |-> SHARD_LEN, pad |-> U16(pad),
                      original_size |-> orig, frame_count |-> frames,
                      il_depth |-> U16(il), slice_bytes |-> U16(sb), reserved |-> 0]
           D      == gh.il_depth
           S      == gh.slice_bytes
           PAY    == payload_len_bytes(r)
       IN  IF pad < 0 \/ ~ init_rs_char_ok(r, pad)
           THEN \* return -101, return -1: before fopen of the container
                /\ pk' = [pk EXCEPT !.pc = "done", !.r = r]
                /\ pk_ret' = IF pad < 0 THEN -101 ELSE -1
                /\ UNCHANGED cfile
           ELSE
           /\ cfile' = [gh |-> gh, recs |-> << >>, size |-> sizeof_rsct_header_v4_t]
           /\ IF S = 0
              THEN \* (PAY + S - 1) / S divides by zero: the call does not return
                   /\ pk' = [pk EXCEPT !.pc = "trap", !.r = r, !.D = D, !.S = S,
                                       !.PAY = PAY, !.orig = orig, !.frames = frames]
                   /\ UNCHANGED pk_ret
              ELSE \* the five calloc(D, ...); for D = 0 the C libraries the DLL
                   \* is built against return a non-null pointer
                   /\ pk' = [pc |-> "grp", r |-> r, D |-> D, S |-> S, PAY |-> PAY,
                             orig |-> orig, frames |-> frames,
                             total_slices |-> frames * ((PAY + S - 1) \div S),
                             prog_slices |-> 0, fbase |-> 0, in_grp |-> 0,
                             off |-> 0, fhdr |-> << >>]
                   /\ UNCHANGED pk_ret
    /\ UNCHANGED << in_len, in_kind, a_r, a_il_depth, a_slice_bytes, a_pad_mode,
                    g_cancel, g_rs_stats, un, un_ret, tab, ofile, ch, prev >>
    /\ UNCHANGED << bitVars, crcVars, kmpVars, jdVars >>
    /\ held' = IF pk'.pc = "done" THEN held
               ELSE IF pk'.pc = "trap" THEN held \cup {"pk.rs", "pk.fi", "pk.fo"}
               ELSE held \cup {"pk.rs", "pk.fi", "pk.fo", "pk.arrays"}

\* loops that never look at the cancel flag
cancel_never_polled == FALSE

\* if (g_cancel) break;  at the top of the group loop and of the offset
\* loop of pack, of the scan loop and of the frame loop of unpack
cancel_polled == g_cancel # 0

\* a group loop that takes every remaining frame into one group
in_grp_all_remaining(frames, fbase, D) == frames - fbase

\* in_grp = (uint16_t)((frames - fbase) >= D ? D : (frames - fbase))
in_grp_of(frames, fbase, D) ==
    U16(IF frames - fbase >= D THEN D ELSE frames - fbase)

\* one test of while (fbase < frames) and, when the loop is entered, the
\* cancel poll and the for loop that reads, encodes and writes the frame
\* headers of the group
PackGroup ==
    /\ pk.pc = "grp"
    /\ IF pk.fbase >= pk.frames \/ cancel_polled
       THEN /\ pk' = [pk EXCEPT !.pc = "ret"]
            /\ UNCHANGED cfile
       ELSE LET in_grp == in_grp_of(pk.frames, pk.fbase, pk.D)
                fh(gi) == LET fidx == pk.fbase + gi
                          IN  [magic |-> "RSF4", index |-> fidx,
                               data_len |-> U16(to_read_of(pk.orig, pk.frames, fidx)),
                               parity_len |-> U16(pk.r * SHARD_LEN),
                               crc32_data |-> [of |-> "data", f |-> fidx],
                               crc32_par |-> [of |-> "par", f |-> fidx]]
                fhdr == [g \in 1..in_grp |-> fh(g - 1)]
                hrec == [g \in 1..in_grp |->
                           FrameRec(cfile.size + (g - 1) * sizeof_frame_hdr_v4_t, fhdr[g])]
            IN  /\ cfile' = [cfile EXCEPT !.recs = @ \o hrec,
                                          !.size = @ + in_grp * sizeof_frame_hdr_v4_t]
                /\ pk' = [pk EXCEPT !.pc = "stride", !.in_grp = in_grp,
                                    !.fhdr = fhdr, !.off = 0]
    /\ UNCHANGED << in_len, in_kind, a_r, a_il_depth, a_slice_bytes, a_pad_mode,
                    g_cancel, g_rs_stats, pk_ret, un, un_ret, tab, ofile, ch, prev >>
    /\ UNCHANGED << bitVars, crcVars, kmpVars, jdVars >>
    /\ held' = IF pk'.pc = "stride" THEN held \cup {"pk.group"} ELSE held

\* one test of for (off = 0; off < PAY; off += S): the cancel poll and the
\* slices of every frame of the group at this offset, or, when the loop
\* ends, the frees and fbase += in_grp
PackStride ==
    /\ pk.pc = "stride"
    /\ IF pk.off >= pk.PAY \/ cancel_polled
       THEN /\ pk' = [pk EXCEPT !.pc = "grp", !.fbase = @ + pk.in_grp, !.fhdr = << >>]
            /\ UNCHANGED cfile
       ELSE LET chunk == IF pk.off + pk.S <= pk.PAY THEN pk.S ELSE pk.PAY - pk.off
                sh(g) == [magic |-> "RSL4", frame_index |-> pk.fhdr[g].index,
                          offset |-> pk.off, size |-> U16(chunk)]
                srec  == [g \in 1..pk.in_grp |->
                            SliceRec(cfile.size + (g - 1) * (sizeof_slice_hdr_v4_t + chunk),
                                     sh(g),
                                     GatherSlice(pk.fhdr[g].index, pk.r, pk.off, chunk))]
            IN  /\ cfile' = [cfile EXCEPT !.recs = @ \o srec,
                                          !.size = @ + pk.in_grp * (sizeof_slice_hdr_v4_t + chunk)]
                /\ pk' = [pk EXCEPT !.off = @ + pk.S,
                                    !.prog_slices = @ + pk.in_grp]
    /\ UNCHANGED << in_len, in_kind, a_r, a_il_depth, a_slice_bytes, a_pad_mode,
                    g_cancel, g_rs_stats, pk_ret, un, un_ret, tab, ofile, ch, prev >>
    /\ UNCHANGED << bitVars, crcVars, kmpVars, jdVars >>
    /\ held' = IF pk'.pc = "grp" THEN held \ {"pk.group"} ELSE held

\* a return that clears the flag it has acted on
PackReturn_clears_flag ==
    /\ pk.pc = "ret"
    /\ pk' = [pk EXCEPT !.pc = "done"]
    /\ pk_ret' = IF g_cancel # 0 THEN 1 ELSE 0
    /\ g_cancel' = 0
    /\ UNCHANGED << in_len, in_kind, a_r, a_il_depth, a_slice_bytes, a_pad_mode,
                    g_rs_stats, cfile, un, un_ret, tab, ofile, ch, prev >>
    /\ UNCHANGED << bitVars, crcVars, kmpVars, jdVars >>
    /\ held' = held \ ({"pk.arrays", "pk.fi", "pk.fo"} \cup free_rs_char({"pk.rs"}))

\* the frees, the fcloses and  return g_cancel ? 1 : 0
PackReturn ==
    /\ pk.pc = "ret"
    /\ pk' = [pk EXCEPT !.pc = "done"]
    /\ pk_ret' = IF g_cancel # 0 THEN 1 ELSE 0
    /\ UNCHANGED << in_len, in_kind, a_r, a_il_depth, a_slice_bytes, a_pad_mode,
                    g_cancel, g_rs_stats, cfile, un, un_ret, tab, ofile, ch, prev >>
    /\ UNCHANGED << bitVars, crcVars, kmpVars, jdVars >>
    /\ held' = held \ ({"pk.arrays", "pk.fi", "pk.fo"} \cup free_rs_char({"pk.rs"}))

\* rs_request_cancel(yes), called by the host at any moment
rs_request_cancel ==
    /\ \E yes \in {0, 1} : g_cancel' = (IF yes # 0 THEN 1 ELSE 0)
    /\ UNCHANGED << in_len, in_kind, a_r, a_il_depth, a_slice_bytes, a_pad_mode,
                    g_rs_stats, pk, pk_ret, cfile, un, un_ret, tab, ofile, ch, prev >>
    /\ UNCHANGED << bitVars, crcVars, kmpVars, jdVars, held >>

\* rs_request_cancel(yes) called by the host while no call of pack or
\* unpack is in progress: before pack, or between pack and unpack
rs_request_cancel_between_calls ==
    /\ pk.pc = "idle" \/ (pk.pc = "done" /\ un.pc = "idle")
    /\ rs_request_cancel

-----------------------------------------------------------------------------
(* rs_unpack_internal : frame buffers                                       *)

ColIdx == 0..(SHARD_LEN - 1)

\* a frame_buf_t after calloc of tab.  col is not a field of the structure:
\* col[i + 1] records what the column loop did to column i of data ("raw": left
\* as received, "rs": replaced by the decoded codeword, "zero": zeroed,
\* "prev": copied from the preceding frame).  oob records a memcpy that
\* went past the end of crcP.  eras_data, eras_par, erasures and ret keep
\* the locals of the frame loop for this frame: the two erasure arrays
\* (nd and np entries), the list handed to decode_rs_char (n_eras
\* entries) and what decode_rs_char returned for column i (ret[i + 1]).
ZeroFrameBuf ==
    [init |-> 0, data_len |-> 0, data |-> {}, par |-> {}, crcD |-> {}, crcP |-> {},
     crc32_data |-> NoCrc32, crc32_par |-> NoCrc32,
     crcD_filled_bytes |-> 0, crcP_filled_bytes |-> 0,
     col |-> [n \in 1..SHARD_LEN |-> "raw"], oob |-> FALSE,
     eras_data |-> << >>, eras_par |-> << >>, erasures |-> << >>, ret |-> << >>]

\* copy_slice_into_frame(fb, r, off, src, len, ...)
copy_slice_into_frame(fb, r, off, src, len) ==
    LET par_bytes  == r * SHARD_LEN
        crcD_bytes == K_SHARDS * 2
        crcP_bytes == r * 2
        t1 == IF off < FRAME_BYTES THEN Min(len, FRAME_BYTES - off) ELSE 0
        c1 == t1
        g2 == off + c1 < FRAME_BYTES + par_bytes /\ c1 < len /\ off + c1 >= FRAME_BYTES
        s2 == off + c1 - FRAME_BYTES
        t2 == IF g2 THEN Min(len - c1, par_bytes - s2) ELSE 0
        c2 == c1 + t2
        b3 == FRAME_BYTES + par_bytes
        g3 == off + c2 < b3 + crcD_bytes /\ c2 < len /\ off + c2 >= b3
        s3 == off + c2 - b3
        t3 == IF g3 THEN Min(len - c2, crcD_bytes - s3) ELSE 0
        c3 == c2 + t3
        b4 == b3 + crcD_bytes
        g4 == c3 < len /\ off + c3 >= b4
        s4 == off + c3 - b4
        \* m = crcP_bytes - soff is a size_t: it wraps when soff > crcP_bytes
        t4 == IF g4 THEN (IF s4 > crcP_bytes THEN len - c3
                          ELSE Min(len - c3, crcP_bytes - s4))
              ELSE 0
    IN  [fb EXCEPT
            !.data = StoreRuns(@, off, SubPieces(src, 0, t1)),
            !.par  = StoreRuns(@, s2, SubPieces(src, c1, t2)),
            !.crcD = StoreRuns(@, s3, SubPieces(src, c2, t3)),
            !.crcP = StoreRuns(@, s4, SubPieces(src, c3, t4)),
            !.crcD_filled_bytes = @ + t3,
            !.crcP_filled_bytes = @ + t4,
            !.oob = @ \/ (t4 > 0 /\ s4 + t4 > crcP_bytes)]

-----------------------------------------------------------------------------
(* CRC-16 and Reed-Solomon, ideal                                           *)

\* What the CRC-16 stored at virtual payload offset src.o of frame src.f
\* was computed over by pack (rp parity shards): the 64 bytes at the
\* returned virtual offset of that frame.  Empty for bytes that are not an
\* entry of a CRC-16 table.
EntryRef(src, rp) ==
    LET b3 == FRAME_BYTES + rp * SHARD_LEN
        b4 == b3 + K_SHARDS * 2
    IN  IF src.f < 0 THEN {}
        ELSE IF src.o >= b3 /\ src.o < b4 /\ (src.o - b3) % 2 = 0
        THEN {[f |-> src.f, o |-> SHARD_LEN * ((src.o - b3) \div 2)]}
        ELSE IF src.o >= b4 /\ src.o < b4 + rp * 2 /\ (src.o - b4) % 2 = 0
        THEN {[f |-> src.f, o |-> FRAME_BYTES + SHARD_LEN * ((src.o - b4) \div 2)]}
        ELSE {}

\* crc16_ccitt(buf + j*SHARD_LEN, SHARD_LEN) == table[j]: the entry is the
\* CRC-16 of some 64 bytes and shard j of buf holds the same 64 byte values
crc16_matches(buf, table, j, rp) ==
    \E e \in EntrySrc(table, j) : \E ref \in EntryRef(e, rp) :
        \/ ref \in ShardSrc(buf, j)
        \/ \A i \in ColIdx :
              BufVal(buf, j * SHARD_LEN + i, rp) = TxVal(ref.f, ref.o + i, rp)

\* decode_rs_char(rs, code, erasures, n_eras) for a received word that
\* differs from the codeword encode_rs_char produced at the positions
\* wrong: the word is corrected iff 2 * errors + erasures <= nroots and the
\* number of corrected positions is returned, else a negative value
decode_rs_char(wrong, erasures, nroots) ==
    LET E      == {erasures[n] : n \in DOMAIN erasures}
        errors == Cardinality(wrong \ E)
    IN  IF 2 * errors + Len(erasures) <= nroots THEN Cardinality(wrong) ELSE -1

\* a sequence given by a rule, as an explicit sequence
Eager(s) == s \o << >>

\* first n elements of a sequence (all of it when shorter)
TakeSeq(s, n) == SubSeq(s, 1, Min(Len(s), Max(n, 0)))

\* the indices 0 .. n-1 that satisfy Test, ascending
Ascending(n, Test(_)) == SelectSeq([k \in 1..n |-> k - 1], Test)

\* eras_data after the trailing-zero loop
TrailingErasures(dlen) ==
    IF dlen < FRAME_BYTES
    THEN LET full2   == dlen \div SHARD_LEN
             rem2    == dlen % SHARD_LEN
             cutoff2 == full2 + (IF rem2 # 0 THEN 1 ELSE 0)
         IN  [n \in 1..(K_SHARDS - cutoff2) |-> cutoff2 + n - 1]
                \o (IF rem2 # 0 THEN << full2 >> ELSE << >>)
    ELSE << >>

\* value of byte x of tab[f].data after the column loop of frame f
RECURSIVE PostVal(_, _, _, _)
PostVal(t, f, x, rp) ==
    LET c == t[f].col[(x % SHARD_LEN) + 1]
    IN  CASE c = "rs"   -> TxVal(f, x, rp)
          [] c = "raw"  -> BufVal(t[f].data, x, rp)
          [] c = "zero" -> 0
          [] c = "prev" -> PostVal(t, f - 1, x, rp)

\* crc16_ccitt(fb->data + j*SHARD_LEN, SHARD_LEN) != fb->crcD[j] after the
\* column loop
residual_mismatch(t, f, j, rp) ==
    ~ \E e \in EntrySrc(t[f].crcD, j) : \E ref \in EntryRef(e, rp) :
        \A i \in ColIdx :
            \/ /\ ref = [f |-> f, o |-> j * SHARD_LEN]
               /\ \/ t[f].col[i + 1] = "rs"
                  \/ t[f].col[i + 1] = "raw" /\ ref \in ShardSrc(t[f].data, j)
            \/ PostVal(t, f, j * SHARD_LEN + i, rp) = TxVal(ref.f, ref.o + i, rp)

\* the bytes among the first n of tab[f].data that differ from the input
\* file's bytes at the same place, with their values
Deviations(t, f, n, rp) ==
    LET fb   == t[f]
        BadD == {j \in 0..(K_SHARDS - 1) :
                    [f |-> f, o |-> j * SHARD_LEN] \notin ShardSrc(fb.data, j)}
        cand == {j * SHARD_LEN + i : j \in BadD, i \in {c \in ColIdx : fb.col[c + 1] = "raw"}}
                \cup
                {j * SHARD_LEN + i : j \in 0..(K_SHARDS - 1),
                                     i \in {c \in ColIdx : fb.col[c + 1] \in {"zero", "prev"}}}
    IN  {<<x, PostVal(t, f, x, rp)>> :
            x \in {y \in cand : y < n /\ PostVal(t, f, y, rp) # DataByte(f, y)}}

-----------------------------------------------------------------------------
(* rs_unpack_internal : actions                                             *)

\* hits is not a local of the function: it collects the records (indices
\* into cfile.recs) whose header, and payload for a slice, the scan loop
\* read in full.  eras_overflow records nd exceeding the K_SHARDS entries
\* of eras_data.
UnpackIdle ==
    [pc |-> "idle", pad_mode |-> 0, gh |-> NoHeader, r |-> 0, PAY |-> 0, F |-> 0,
     pos |-> 0, total_slices |-> 0, done_slices |-> 0,
     residual_bad_bytes_est |-> 0, total_written_bytes |-> 0, written |-> 0,
     idx |-> 0, hits |-> {}, eras_overflow |-> FALSE]

\* a validation that accepts every r
header_error_without_r_check(size, gh) ==
    IF size < sizeof_rsct_header_v4_t THEN -2
    ELSE IF gh.magic # "RSCT" \/ gh.version # 4 THEN -3
    ELSE IF gh.k # K_SHARDS \/ gh.shard_len # SHARD_LEN THEN -4
    ELSE 0

\* the value returned by the validation of the global header of a file of
\* size bytes (fread of the header, magic and version, k and shard_len, r,
\* init_rs_char), 0 when it passes
header_error(size, gh) ==
    IF size < sizeof_rsct_header_v4_t THEN -2
    ELSE IF gh.magic # "RSCT" \/ gh.version # 4 THEN -3
    ELSE IF gh.k # K_SHARDS \/ gh.shard_len # SHARD_LEN THEN -4
    ELSE IF gh.r <= 0 \/ gh.r > MAX_R THEN -5
    ELSE IF ~ init_rs_char_ok(gh.r, gh.pad) THEN -6
    ELSE 0

\* rs_unpack_container_ex(container, output, pad_mode): rs_unpack_internal
\* from its entry to the first iteration of the scan loop
rs_unpack_container_ex ==
    /\ un.pc = "idle"
    /\ pk.pc = "done"
    /\ LET pad_mode == IF a_pad_mode < 0 \/ a_pad_mode > 2 THEN RS_PAD_MODE ELSE a_pad_mode
           gh  == cfile.gh
           r   == gh.r
           PAY == payload_len_bytes(r)
           F   == gh.frame_count
           err == header_error(cfile.size, gh)
           est == IF gh.slice_bytes # 0
                  THEN F * ((PAY + gh.slice_bytes - 1) \div gh.slice_bytes)
                  ELSE 0
       IN  /\ ofile' = << >>
           /\ IF err # 0
              THEN /\ un' = [UnpackIdle EXCEPT !.pc = "done", !.pad_mode = pad_mode]
                   /\ un_ret' = err
                   /\ g_rs_stats' = rs_stats_reset
                   /\ tab' = << >>
              ELSE /\ un' = [UnpackIdle EXCEPT !.pc = "scan", !.pad_mode = pad_mode,
                                !.gh = gh, !.r = r, !.PAY = PAY, !.F = F,
                                !.pos = sizeof_rsct_header_v4_t,
                                !.total_slices = est]
                   /\ UNCHANGED un_ret
                   /\ g_rs_stats' = [rs_stats_reset EXCEPT
                                       !.frames_total = F,
                                       !.pad_mode_used = pad_mode,
                                       !.codewords_total = SHARD_LEN * F,
                                       !.symbols_total = (K_SHARDS + r) * (SHARD_LEN * F),
                                       !.data_symbols_total = K_SHARDS * (SHARD_LEN * F),
                                       !.slices_total_est = est]
                   \* calloc(F, ...); for F = 0 the C libraries the DLL is built
                   \* against return a non-null pointer
                   /\ tab' = [f \in 0..(F - 1) |-> ZeroFrameBuf]
    /\ UNCHANGED << in_len, in_kind, a_r, a_il_depth, a_slice_bytes, a_pad_mode,
                    g_cancel, pk, pk_ret, cfile, ch, prev >>
    /\ UNCHANGED << bitVars, crcVars, kmpVars, jdVars >>
    /\ held' = IF un'.pc = "done" THEN held
               ELSE held \cup {"un.rs", "un.fi", "un.fo", "un.tab"}

\* fb after  if (!fb->init) { calloc x 4; fb->init = 1; }  and the three
\* assignments of the frame-header branch
AcceptFrameHdr(fb, rec) ==
    [fb EXCEPT !.init = IF @ = 0 THEN 1 ELSE @,
               !.data_len = rec.data_len,
               !.crc32_data = rec.crc32_data,
               !.crc32_par = rec.crc32_par]

\* a lazy initialisation that takes every frame for a full one
LazyInit_always_full(fb, frame_index, gh, F) ==
    IF fb.init # 0 THEN fb
    ELSE [fb EXCEPT !.data_len = U16(FRAME_BYTES), !.init = 2]

\* fb after the lazy initialisation of the slice branch
LazyInit(fb, frame_index, gh, F) ==
    IF fb.init # 0 THEN fb
    ELSE [fb EXCEPT
            !.data_len =
                IF frame_index = F - 1
                THEN LET last_bytes == gh.original_size - (F - 1) * FRAME_BYTES
                     IN  U16(IF last_bytes <= FRAME_BYTES THEN last_bytes ELSE FRAME_BYTES)
                ELSE U16(FRAME_BYTES),
            !.init = 2]

\* What stores past the end of an array can do (eras_data[nd++] with
\* nd >= K_SHARDS on the stack, memcpy past crcP on the heap): they land in
\* memory the run does not read again, or the process is stopped (stack
\* protector, guard page, heap check) and the call never returns
StoresPastEnd(past) == IF past THEN {"landed", "trap"} ELSE {"landed"}

\* a scan loop that accepts every slice
crc32_unchecked(rec) == TRUE

\* crc32_calc(buf, size) == sh.crc32_slice: the size bytes read are the
\* record's own payload and crc32_slice is their CRC-32
crc32_ok(rec) == rec.crc_ok /\ rec.size = PiecesLen(rec.pay)

\* one iteration of the scan loop for (;;): cancel poll, find_next_magic,
\* then the frame-header branch or the slice branch
ScanStep ==
    /\ un.pc = "scan"
    /\ LET \* find_next_magic: the first magic at or after the file position
           cands == {k \in DOMAIN cfile.recs :
                        /\ cfile.recs[k].magic # "none"
                        /\ cfile.recs[k].at >= un.pos
                        /\ cfile.recs[k].at + 4 <= cfile.size}
           k     == CHOOSE c \in cands : \A d \in cands : c <= d
           rec   == cfile.recs[k]
           break == /\ un' = [un EXCEPT !.pc = "decode", !.written = 0, !.idx = 0]
                    /\ UNCHANGED << tab, g_rs_stats >>
       IN  IF cancel_polled \/ cands = {} THEN break
           ELSE IF rec.magic = "RSF4"
           THEN IF rec.at + sizeof_frame_hdr_v4_t > cfile.size THEN break
                ELSE /\ un' = [un EXCEPT !.pos = rec.at + sizeof_frame_hdr_v4_t,
                                         !.hits = @ \cup {k}]
                     /\ IF \/ rec.index >= un.F
                           \/ rec.parity_len # U16(un.r * SHARD_LEN)
                           \/ rec.data_len > FRAME_BYTES
                        THEN UNCHANGED tab
                        ELSE tab' = [tab EXCEPT ![rec.index] = AcceptFrameHdr(@, rec)]
                     /\ UNCHANGED g_rs_stats
           ELSE IF rec.at + sizeof_slice_hdr_v4_t > cfile.size THEN break
           ELSE IF rec.size = 0
           THEN /\ un' = [un EXCEPT !.pos = rec.at + sizeof_slice_hdr_v4_t,
                                    !.hits = @ \cup {k}]
                /\ UNCHANGED << tab, g_rs_stats >>
           ELSE IF rec.at + sizeof_slice_hdr_v4_t + rec.size > cfile.size THEN break
           ELSE LET pos1 == rec.at + sizeof_slice_hdr_v4_t + rec.size
                IN  IF ~ crc32_ok(rec)
                    THEN /\ g_rs_stats' = [g_rs_stats EXCEPT !.slices_bad = @ + 1]
                         /\ un' = [un EXCEPT !.pos = pos1,
                                     !.hits = IF rec.size = PiecesLen(rec.pay)
                                              THEN @ \cup {k} ELSE @]
                         /\ UNCHANGED tab
                    ELSE LET fb1 == copy_slice_into_frame(
                                        LazyInit(tab[rec.index], rec.index, un.gh, un.F),
                                        un.r, rec.offset,
                                        SubPieces(rec.pay, 0, rec.size), rec.size)
                             past == rec.index < un.F /\ fb1.oob /\ ~ tab[rec.index].oob
                         IN  \E outcome \in StoresPastEnd(past) :
                             /\ g_rs_stats' = [g_rs_stats EXCEPT !.slices_ok = @ + 1]
                             /\ tab' = IF rec.index < un.F
                                       THEN [tab EXCEPT ![rec.index] = fb1]
                                       ELSE tab
                             /\ un' = IF outcome = "trap"
                                      THEN [un EXCEPT !.pc = "trap"]
                                      ELSE [un EXCEPT !.pos = pos1, !.hits = @ \cup {k},
                                                      !.done_slices = @ + 1]
    /\ UNCHANGED << in_len, in_kind, a_r, a_il_depth, a_slice_bytes, a_pad_mode,
                    g_cancel, pk, pk_ret, cfile, un_ret, ofile, ch, prev >>
    /\ UNCHANGED << bitVars, crcVars, kmpVars, jdVars >>
    /\ held' = held \cup (IF \E f \in DOMAIN tab' : tab'[f].init # 0
                            THEN {"un.frames"} ELSE {})
                     \cup (IF un'.pc = "decode" THEN {"un.code"} ELSE {})

\* a frame loop that always writes whole frames
to_write_whole_frame(gh, written) == FRAME_BYTES

\* to_write = min(FRAME_BYTES, original_size - written)
to_write_of(gh, written) ==
    IF gh.original_size - written >= FRAME_BYTES THEN FRAME_BYTES
    ELSE gh.original_size - written

\* fb->crcD_filled_bytes >= crcD_bytes && fb->crcP_filled_bytes >= crcP_bytes
has_crc_tables(fb, r) ==
    fb.crcD_filled_bytes >= K_SHARDS * 2 /\ fb.crcP_filled_bytes >= r * 2

\* eras_data[0 .. nd-1]: the trailing-zero erasures, then the data shards
\* whose CRC-16 mismatches
eras_data_of(fb, r, rp) ==
    TrailingErasures(IF fb.data_len > FRAME_BYTES THEN FRAME_BYTES ELSE fb.data_len)
    \o (IF has_crc_tables(fb, r)
        THEN Ascending(K_SHARDS, LAMBDA j : ~ crc16_matches(fb.data, fb.crcD, j, rp))
        ELSE << >>)

\* eras_par[0 .. np-1]: K_SHARDS + j for the parity shards whose CRC-16
\* mismatches
eras_par_of(fb, r, rp) ==
    IF has_crc_tables(fb, r)
    THEN LET bad == Ascending(r, LAMBDA j : ~ crc16_matches(fb.par, fb.crcP, j, rp))
         IN  Eager([n \in 1..Len(bad) |-> K_SHARDS + bad[n]])
    ELSE << >>

\* erasures[0 .. n_eras-1]: eras_data then eras_par, at most r entries
erasures_of(ed, ep, r) ==
    LET first == TakeSeq(ed, r)
    IN  first \o TakeSeq(ep, r - Len(first))

\* the positions of code[] (column i of frame idx) that differ from the
\* codeword pack encoded for that column; BadD and BadP are the data and
\* parity shards that are not, as a whole, the bytes pack wrote for them
wrong_of(fb, idx, i, BadD, BadP, rp) ==
    {j \in BadD : BufVal(fb.data, j * SHARD_LEN + i, rp)
                    # TxVal(idx, j * SHARD_LEN + i, rp)}
    \cup
    {K_SHARDS + j : j \in
        {p \in BadP : BufVal(fb.par, p * SHARD_LEN + i, rp)
                        # TxVal(idx, FRAME_BYTES + p * SHARD_LEN + i, rp)}}

BadShards(runs, idx, n, base) ==
    {j \in 0..(n - 1) : [f |-> idx, o |-> base + j * SHARD_LEN] \notin ShardSrc(runs, j)}

\* ret[i + 1] is the value decode_rs_char returns for column i of frame idx
column_rets(fb, idx, erasures, BadD, BadP, r, rp) ==
    Eager([n \in 1..SHARD_LEN |->
            decode_rs_char(wrong_of(fb, idx, n - 1, BadD, BadP, rp), erasures, r)])

\* a column loop that zeroes a failed column under every pad mode
column_after_zeroes_failure(ret_i, pad_mode, prev_ok) ==
    IF ret_i >= 0 THEN "rs" ELSE "zero"

\* a column loop that stores code[] whatever decode_rs_char returned
column_after_stores_code(ret_i, pad_mode, prev_ok) == "rs"

\* what the column loop leaves in column i of fb->data
column_after(ret_i, pad_mode, prev_ok) ==
    IF ret_i >= 0 THEN "rs"
    ELSE IF pad_mode = 1 THEN "zero"
    ELSE IF pad_mode = 2 THEN (IF prev_ok THEN "prev" ELSE "zero")
    ELSE "raw"

RECURSIVE SumNonNeg(_, _)
SumNonNeg(s, k) ==
    IF k > Len(s) THEN 0
    ELSE (IF s[k] >= 0 THEN s[k] ELSE 0) + SumNonNeg(s, k + 1)

\* Effects of the body of the frame loop for an initialised frame, given
\* the erasure list and the column results
DecodeFrame(idx, ed, ep, erasures, ret, to_write) ==
    LET nd   == Len(ed)
        fb1  == [tab[idx] EXCEPT !.col =
                    Eager([n \in 1..SHARD_LEN |->
                             column_after(ret[n], un.pad_mode,
                                          idx > 0 /\ tab[Max(idx, 1) - 1].init # 0)]),
                                 !.eras_data = ed, !.eras_par = ep,
                                 !.erasures = erasures, !.ret = ret]
        tab1 == [tab EXCEPT ![idx] = fb1]
    IN  /\ tab' = tab1
        /\ g_rs_stats' = [g_rs_stats EXCEPT
              !.used_erasures_cols = @ + (IF Len(erasures) > 0 THEN SHARD_LEN ELSE 0),
              !.rs_fail_columns = @ + Cardinality({n \in 1..SHARD_LEN : ret[n] < 0}),
              !.corrected_symbols = @ + SumNonNeg(ret, 1)]
        /\ ofile' = IF to_write > 0
                    THEN Append(ofile, [at |-> un.written, f |-> idx,
                                        n |-> to_write, zero |-> FALSE,
                                        dev |-> Deviations(tab1, idx, to_write, pk.r)])
                    ELSE ofile
        /\ un' = [un EXCEPT
              !.residual_bad_bytes_est =
                  @ + (IF has_crc_tables(fb1, un.r)
                       THEN Cardinality({j \in 0..(K_SHARDS - 1) :
                                            residual_mismatch(tab1, idx, j, pk.r)})
                       ELSE 0)
                      * ((SHARD_LEN * RS_RESIDUAL_COEFF_DEFAULT) \div 100),
              !.written = @ + to_write,
              !.total_written_bytes = @ + to_write,
              !.idx = @ + 1,
              !.eras_overflow = @ \/ nd > K_SHARDS]

\* a frame loop that writes nothing for a missing frame
MissingFrame_skipped(idx, to_write) ==
    /\ ofile' = ofile
    /\ un' = [un EXCEPT !.idx = @ + 1]
    /\ UNCHANGED << tab, g_rs_stats >>

\* the body of the frame loop for a frame with init = 0: to_write zero
\* bytes, then continue
MissingFrame(idx, to_write) ==
    /\ ofile' = IF to_write > 0
                THEN Append(ofile, [at |-> un.written, f |-> idx,
                                    n |-> to_write, zero |-> TRUE, dev |-> {}])
                ELSE ofile
    /\ un' = [un EXCEPT !.written = @ + to_write,
                        !.total_written_bytes = @ + to_write,
                        !.idx = @ + 1]
    /\ UNCHANGED << tab, g_rs_stats >>

\* one iteration of for (idx = 0; idx < F; ++idx): cancel poll, then the
\* zero fill of a missing frame, or erasure determination, the column
\* loop, the residual observation and the write of the frame
DecodeStep ==
    /\ un.pc = "decode"
    /\ IF un.idx >= un.F \/ cancel_polled
       THEN /\ un' = [un EXCEPT !.pc = "ret"]
            /\ UNCHANGED << tab, g_rs_stats, ofile >>
       ELSE LET idx      == un.idx
                fb       == tab[idx]
                to_write == to_write_of(un.gh, un.written)
            IN  IF fb.init = 0
                THEN MissingFrame(idx, to_write)
                ELSE \E ed \in {eras_data_of(fb, un.r, pk.r)} :
                     \E ep \in {eras_par_of(fb, un.r, pk.r)} :
                     \E erasures \in {erasures_of(ed, ep, un.r)} :
                     \E BadD \in {BadShards(fb.data, idx, K_SHARDS, 0)} :
                     \E BadP \in {BadShards(fb.par, idx, un.r, FRAME_BYTES)} :
                     \E ret \in {column_rets(fb, idx, erasures, BadD, BadP, un.r, pk.r)} :
                     \E outcome \in StoresPastEnd(Len(ed) > K_SHARDS) :
                        IF outcome = "trap"
                        THEN /\ un' = [un EXCEPT !.pc = "trap", !.eras_overflow = TRUE]
                             /\ tab' = [tab EXCEPT ![idx].eras_data = ed]
                             /\ UNCHANGED << g_rs_stats, ofile >>
                        ELSE DecodeFrame(idx, ed, ep, erasures, ret, to_write)
    /\ UNCHANGED << in_len, in_kind, a_r, a_il_depth, a_slice_bytes, a_pad_mode,
                    g_cancel, pk, pk_ret, cfile, un_ret, ch, prev >>
    /\ UNCHANGED << bitVars, crcVars, kmpVars, jdVars, held >>

\* the frees, the final metrics and  return g_cancel ? 1 : 0
UnpackReturn ==
    /\ un.pc = "ret"
    /\ un' = [un EXCEPT !.pc = "done"]
    /\ g_rs_stats' = [g_rs_stats EXCEPT !.ber_est =
                        IF un.total_written_bytes > 0 /\ un.residual_bad_bytes_est > 0
                        THEN << un.residual_bad_bytes_est, un.total_written_bytes >>
                        ELSE << 0, 1 >>]
    /\ un_ret' = IF g_cancel # 0 THEN 1 ELSE 0
    /\ UNCHANGED << in_len, in_kind, a_r, a_il_depth, a_slice_bytes, a_pad_mode,
                    g_cancel, pk, pk_ret, cfile, tab, ofile, ch, prev >>
    /\ UNCHANGED << bitVars, crcVars, kmpVars, jdVars >>
    /\ held' = held \ ({"un.code", "un.frames", "un.tab", "un.fi", "un.fo"}
                         \cup free_rs_char({"un.rs"}))

-----------------------------------------------------------------------------
(* The container between pack and unpack                                    *)

\* ch counts what happened to the container file between the return of
\* pack and the call of unpack
NoChannel == [drops |-> 0, corrupts |-> 0, inserts |-> 0, truncs |-> 0, hdr |-> 0]

\* slice records lost or altered, byte strings inserted
MaxLoss    == 1
MaxInserts == 1

\* the records written one after another from file offset at
RECURSIVE LayFrom(_, _, _)
LayFrom(recs, k, at) ==
    IF k > Len(recs) THEN << >>
    ELSE << [recs[k] EXCEPT !.at = at] >> \o LayFrom(recs, k + 1, at + recs[k].nbytes)

RECURSIVE BytesFrom(_, _)
BytesFrom(recs, k) ==
    IF k > Len(recs) THEN 0 ELSE recs[k].nbytes + BytesFrom(recs, k + 1)

\* the container file with the same global header and the records recs
FileOf(recs) ==
    [cfile EXCEPT !.recs = LayFrom(recs, 1, sizeof_rsct_header_v4_t),
                  !.size = sizeof_rsct_header_v4_t + BytesFrom(recs, 1)]

RemoveAt(s, k) == SubSeq(s, 1, k - 1) \o SubSeq(s, k + 1, Len(s))

InsertAt(s, k, e) == SubSeq(s, 1, k - 1) \o << e >> \o SubSeq(s, k, Len(s))

\* the channel acts on the file pack returned 0 for, before unpack opens
\* it; a truncation is the last thing that happens to the file
ChannelOpen ==
    /\ pk.pc = "done" /\ pk_ret = 0
    /\ un.pc = "idle"
    /\ prev.kind = "none"
    /\ ch.truncs = 0

\* a slice record (slice_hdr_v4_t and payload) is removed from the file
ChDropSlice ==
    /\ ChannelOpen
    /\ ch.drops + ch.corrupts < MaxLoss
    /\ \E k \in DOMAIN cfile.recs :
          /\ cfile.recs[k].magic = "RSL4"
          /\ cfile' = FileOf(RemoveAt(cfile.recs, k))
    /\ ch' = [ch EXCEPT !.drops = @ + 1]
    /\ UNCHANGED << in_len, in_kind, a_r, a_il_depth, a_slice_bytes, a_pad_mode,
                    g_cancel, g_rs_stats, pk, pk_ret, un, un_ret, tab, ofile, prev >>
    /\ UNCHANGED << bitVars, crcVars, kmpVars, jdVars, held >>

\* the first slice record of the file is removed (Scenario C does it 3 times)
ChDropFirstSlice ==
    /\ ChannelOpen
    /\ ch.drops < 3
    /\ LET S == {k \in DOMAIN cfile.recs : cfile.recs[k].magic = "RSL4"}
       IN  /\ S # {}
           /\ cfile' = FileOf(RemoveAt(cfile.recs, CHOOSE k \in S : \A l \in S : k <= l))
    /\ ch' = [ch EXCEPT !.drops = @ + 1]
    /\ UNCHANGED << in_len, in_kind, a_r, a_il_depth, a_slice_bytes, a_pad_mode,
                    g_cancel, g_rs_stats, pk, pk_ret, un, un_ret, tab, ofile, prev >>
    /\ UNCHANGED << bitVars, crcVars, kmpVars, jdVars, held >>

\* bytes of a slice record change: its crc32_slice field, or its payload
\* (the payload then holds bytes pack did not write); either way
\* crc32_slice is no longer the CRC-32 of the payload
ChCorruptSlice ==
    /\ ChannelOpen
    /\ ch.drops + ch.corrupts < MaxLoss
    /\ \E k \in DOMAIN cfile.recs : \E what \in {"crc32_slice", "payload"} :
          /\ cfile.recs[k].magic = "RSL4" /\ cfile.recs[k].genuine
          /\ cfile' = [cfile EXCEPT !.recs[k] =
                         [@ EXCEPT !.crc_ok = FALSE, !.genuine = FALSE,
                                   !.pay = IF what = "payload"
                                           THEN << Piece(PiecesLen(@), 0 - 1, cfile.recs[k].at) >>
                                           ELSE @]]
    /\ ch' = [ch EXCEPT !.corrupts = @ + 1]
    /\ UNCHANGED << in_len, in_kind, a_r, a_il_depth, a_slice_bytes, a_pad_mode,
                    g_cancel, g_rs_stats, pk, pk_ret, un, un_ret, tab, ofile, prev >>
    /\ UNCHANGED << bitVars, crcVars, kmpVars, jdVars, held >>

\* byte strings that may be inserted between records: bytes without a
\* magic; a slice magic followed by header fields with size 0, a size
\* within the file, the largest size; a frame magic followed by header
\* fields with an index no frame has
InsertedBytes ==
    {  [FrameRec(0, [index |-> 0, data_len |-> 0, parity_len |-> 0,
                     crc32_data |-> NoCrc32, crc32_par |-> NoCrc32])
           EXCEPT !.magic = "none", !.nbytes = 7, !.genuine = FALSE] }
    \cup
    { [SliceRec(0, [frame_index |-> 0, offset |-> 0, size |-> sz], << >>)
           EXCEPT !.crc_ok = FALSE, !.genuine = FALSE] : sz \in {0, 600, 65535} }
    \cup
    {  [FrameRec(0, [index |-> cfile.gh.frame_count, data_len |-> 0, parity_len |-> 0,
                     crc32_data |-> NoCrc32, crc32_par |-> NoCrc32])
           EXCEPT !.genuine = FALSE] }

\* bytes are inserted in front of record k, or behind the last record
ChInsert ==
    /\ ChannelOpen
    /\ ch.inserts < MaxInserts
    /\ \E k \in 1..(Len(cfile.recs) + 1) : \E e \in InsertedBytes :
          cfile' = FileOf(InsertAt(cfile.recs, k, e))
    /\ ch' = [ch EXCEPT !.inserts = @ + 1]
    /\ UNCHANGED << in_len, in_kind, a_r, a_il_depth, a_slice_bytes, a_pad_mode,
                    g_cancel, g_rs_stats, pk, pk_ret, un, un_ret, tab, ofile, prev >>
    /\ UNCHANGED << bitVars, crcVars, kmpVars, jdVars, held >>

\* lengths a truncated file may have: up to a record, into its magic, into
\* its header, into its payload
CutPoints ==
    UNION { {cfile.recs[k].at, cfile.recs[k].at + 2, cfile.recs[k].at + 10,
             cfile.recs[k].at + cfile.recs[k].nbytes - 1} : k \in DOMAIN cfile.recs }

\* trailing bytes of the file pack wrote are cut off
ChTruncate ==
    /\ ChannelOpen
    /\ ch.inserts = 0
    /\ \E cut \in CutPoints :
          /\ cut < cfile.size
          /\ cfile' = [cfile EXCEPT !.size = cut]
    /\ ch' = [ch EXCEPT !.truncs = @ + 1]
    /\ UNCHANGED << in_len, in_kind, a_r, a_il_depth, a_slice_bytes, a_pad_mode,
                    g_cancel, g_rs_stats, pk, pk_ret, un, un_ret, tab, ofile, prev >>
    /\ UNCHANGED << bitVars, crcVars, kmpVars, jdVars, held >>

-----------------------------------------------------------------------------
(* A second unpack of the same container                                    *)

\* prev keeps what an unpack run produced, for comparison with a second
\* run on a file that differs in one respect
NoPrev == [kind |-> "none", f |-> 0, ofile |-> << >>, stats |-> rs_stats_reset, ret |-> 0]

\* after unpack of a file with slice records that fail the CRC-32 check:
\* the same file with those records removed is unpacked
RerunWithoutBadSlices ==
    /\ un.pc = "done"
    /\ prev.kind = "none"
    /\ ch.corrupts > 0
    /\ prev' = [kind |-> "slices", f |-> 0, ofile |-> ofile, stats |-> g_rs_stats,
                ret |-> un_ret]
    /\ cfile' = FileOf(SelectSeq(cfile.recs, LAMBDA rec : rec.crc_ok))
    /\ un' = UnpackIdle
    /\ UNCHANGED << in_len, in_kind, a_r, a_il_depth, a_slice_bytes, a_pad_mode,
                    g_cancel, g_rs_stats, pk, pk_ret, un_ret, tab, ofile, ch >>
    /\ UNCHANGED << bitVars, crcVars, kmpVars, jdVars, held >>

\* after unpack of the file as pack wrote it: the file without the frame
\* header and the slice records of frame f is unpacked
RerunWithoutFrame ==
    /\ un.pc = "done"
    /\ prev.kind = "none"
    /\ ch = NoChannel
    /\ \E f \in 0..(cfile.gh.frame_count - 1) :
          /\ prev' = [kind |-> "frame", f |-> f, ofile |-> ofile, stats |-> g_rs_stats,
                      ret |-> un_ret]
          /\ cfile' = FileOf(SelectSeq(cfile.recs, LAMBDA rec : rec.index # f))
    /\ un' = UnpackIdle
    /\ UNCHANGED << in_len, in_kind, a_r, a_il_depth, a_slice_bytes, a_pad_mode,
                    g_cancel, g_rs_stats, pk, pk_ret, un_ret, tab, ofile, ch >>
    /\ UNCHANGED << bitVars, crcVars, kmpVars, jdVars, held >>

-----------------------------------------------------------------------------
(* A damaged global header                                                  *)

\* what a damaged global header looks like: the file ends inside it, or one
\* of the fields unpack validates has another value
DamagedFiles ==
    { [cfile EXCEPT !.size = 20, !.recs = << >>],
      [cfile EXCEPT !.gh.magic = "none"],
      [cfile EXCEPT !.gh.version = 3],
      [cfile EXCEPT !.gh.k = K_SHARDS - 1],
      [cfile EXCEPT !.gh.shard_len = SHARD_LEN \div 2],
      [cfile EXCEPT !.gh.r = 0],
      [cfile EXCEPT !.gh.r = MAX_R + 1],
      [cfile EXCEPT !.gh.r = 65535] }

\* the global header of the file pack wrote is damaged, before unpack opens
\* the file for the first time or after an unpack run on the intact file
\* (prev then keeps what that run left)
ChDamageHeader ==
    /\ pk.pc = "done" /\ pk_ret = 0
    /\ un.pc \in {"idle", "done"}
    /\ ch = NoChannel /\ prev.kind = "none"
    /\ cfile' \in DamagedFiles
    /\ ch' = [ch EXCEPT !.hdr = 1]
    /\ prev' = IF un.pc = "done"
               THEN [kind |-> "header", f |-> 0, ofile |-> ofile, stats |-> g_rs_stats,
                     ret |-> un_ret]
               ELSE prev
    /\ un' = UnpackIdle
    /\ UNCHANGED << in_len, in_kind, a_r, a_il_depth, a_slice_bytes, a_pad_mode,
                    g_cancel, g_rs_stats, pk, pk_ret, un_ret, tab, ofile >>
    /\ UNCHANGED << bitVars, crcVars, kmpVars, jdVars, held >>

-----------------------------------------------------------------------------
(* A container that holds records pack did not write there                  *)

\* slice records repeated, slice records added by another writer
MaxDup    == 1
MaxForged == 1

\* the records added to the file pack wrote: slice records that repeat an
\* earlier record, slice records pack did not write whose CRC-32 matches
Added == [dups   |-> Cardinality({k \in DOMAIN cfile.recs :
                                     \E l \in 1..(k - 1) : cfile.recs[l] = [cfile.recs[k] EXCEPT !.at = cfile.recs[l].at]}),
          forged |-> Cardinality({k \in DOMAIN cfile.recs :
                                     cfile.recs[k].magic = "RSL4" /\ cfile.recs[k].crc_ok
                                     /\ ~ cfile.recs[k].genuine})]

\* a slice record of the file is in the file a second time, behind the
\* last record
ChDuplicateSlice ==
    /\ ChannelOpen
    /\ Added.dups < MaxDup
    /\ \E k \in DOMAIN cfile.recs :
          /\ cfile.recs[k].magic = "RSL4"
          /\ cfile' = FileOf(Append(cfile.recs, cfile.recs[k]))
    /\ UNCHANGED << in_len, in_kind, a_r, a_il_depth, a_slice_bytes, a_pad_mode,
                    g_cancel, g_rs_stats, pk, pk_ret, un, un_ret, tab, ofile, ch, prev >>
    /\ UNCHANGED << bitVars, crcVars, kmpVars, jdVars, held >>

\* slice records another writer can produce: SHARD_LEN bytes pack did not
\* write, the crc32_slice of these bytes, a frame_index inside or outside
\* the frame table, an offset at the last data shard, shortly before the
\* end of the virtual payload, behind its end
ForgedSlices ==
    { [SliceRec(0, [frame_index |-> fi, offset |-> off, size |-> SHARD_LEN],
                << Piece(SHARD_LEN, 0 - 1, off) >>)
          EXCEPT !.genuine = FALSE] :
        fi \in {0, cfile.gh.frame_count},
        off \in {FRAME_BYTES - SHARD_LEN,
                 payload_len_bytes(cfile.gh.r) - 10,
                 payload_len_bytes(cfile.gh.r) + 100} }

\* such a record is in the file behind the last record
ChForgeSlice ==
    /\ ChannelOpen
    /\ Added.forged < MaxForged
    /\ \E e \in ForgedSlices : cfile' = FileOf(Append(cfile.recs, e))
    /\ UNCHANGED << in_len, in_kind, a_r, a_il_depth, a_slice_bytes, a_pad_mode,
                    g_cancel, g_rs_stats, pk, pk_ret, un, un_ret, tab, ofile, ch, prev >>
    /\ UNCHANGED << bitVars, crcVars, kmpVars, jdVars, held >>

-----------------------------------------------------------------------------
(* The records of the container in another order, frame headers removed     *)

\* containers of up to this many records are tried in every order
MaxPermuted == 4

\* the orders tried for n records: every permutation for a small
\* container, else every exchange of two records and the reversal
Rearrangements(n) ==
    IF n <= MaxPermuted THEN Permutations(1..n)
    ELSE {[i \in 1..n |-> IF i = a THEN b ELSE IF i = b THEN a ELSE i] :
              a \in 1..n, b \in 1..n}
         \cup {[i \in 1..n |-> n + 1 - i]}

Rearranged(recs, p) == [i \in 1..Len(recs) |-> recs[p[i]]]

\* after unpack of the file as pack wrote it: the same records in another
\* order, without the frame headers of the frames in H, are unpacked
RerunRearranged ==
    /\ un.pc = "done"
    /\ prev.kind = "none"
    /\ ch = NoChannel
    /\ \E p \in Rearrangements(Len(cfile.recs)),
          H \in SUBSET (0..(cfile.gh.frame_count - 1)) :
          cfile' = FileOf(SelectSeq(Rearranged(cfile.recs, p),
                                    LAMBDA rec : ~ (rec.magic = "RSF4" /\ rec.index \in H)))
    /\ prev' = [kind |-> "rearranged", f |-> 0, ofile |-> ofile, stats |-> g_rs_stats,
                ret |-> un_ret]
    /\ un' = UnpackIdle
    /\ UNCHANGED << in_len, in_kind, a_r, a_il_depth, a_slice_bytes, a_pad_mode,
                    g_cancel, g_rs_stats, pk, pk_ret, un_ret, tab, ofile, ch >>
    /\ UNCHANGED << bitVars, crcVars, kmpVars, jdVars, held >>

-----------------------------------------------------------------------------
(* PART III.  rs_container.c : crc16_init, crc16_ccitt                      *)

\* threads that call crc16_ccitt, and how many entries (0 .. CrcEntries-1)
\* of the 256-entry table are kept
NumThreads == 2
CrcEntries == 3

Threads == 1..NumThreads

\* a ^ b
RECURSIVE BitXor(_, _)
BitXor(a, b) ==
    IF a = 0 THEN b
    ELSE IF b = 0 THEN a
    ELSE ((a + b) % 2) + 2 * BitXor(a \div 2, b \div 2)

\* c = (c & 0x8000) ? (uint16_t)((c << 1) ^ 0x1021) : (uint16_t)(c << 1)
crc16_round(c) ==
    IF c >= 32768 THEN BitXor((c * 2) % 65536, 4129) ELSE (c * 2) % 65536

RECURSIVE crc16_rounds(_, _)
crc16_rounds(c, j) == IF j = 0 THEN c ELSE crc16_rounds(crc16_round(c), j - 1)

\* the value crc16_init stores in crc16_table[i]
crc16_entry(i) == crc16_rounds((i * 256) % 65536, 8)

\* crc = (uint16_t)((crc << 8) ^ table[((crc >> 8) ^ b) & 0xFF])
crc16_step(table, crc, b) ==
    BitXor((crc * 256) % 65536, table[BitXor(crc \div 256, b) % 256])

\* the loop of crc16_ccitt over buf[k .. ] with a given table
RECURSIVE crc16_loop(_, _, _, _)
crc16_loop(table, crc, buf, k) ==
    IF k > Len(buf) THEN crc
    ELSE crc16_loop(table, crc16_step(table, crc, buf[k]), buf, k + 1)

\* what crc16_ccitt(buf, len) returns once the table is initialised
crc16_ccitt(buf) == crc16_loop([n \in 0..255 |-> crc16_entry(n)], 65535, buf, 1)

\* the buffers the threads pass: one byte whose table lookup
\* (0xFF ^ byte) is one of the entries kept
CrcBufs == {<< 255 - n >> : n \in 0..(CrcEntries - 1)}

\* a thread that has not called: pc is the position in crc16_ccitt /
\* crc16_init, i the loop counter of crc16_init, flag_stored tells that the
\* thread's store to crc16_init_done has been performed, k and crc are the
\* locals of crc16_ccitt
ThreadIdle(buf) ==
    [pc |-> "idle", buf |-> buf, i |-> 0, flag_stored |-> FALSE, k |-> 1, crc |-> 65535]

\* the statics after program start, no thread calling
CrcParked ==
    /\ crc16_table = [n \in 0..(CrcEntries - 1) |-> 0]
    /\ crc16_init_done = 0
    /\ thr = [t \in Threads |-> ThreadIdle(<< >>)]

\* thread t calls crc16_ccitt, which calls crc16_init:
\* if (crc16_init_done) return;
crc16_init_test(t) ==
    /\ thr[t].pc = "idle"
    /\ thr' = [thr EXCEPT ![t].pc = IF crc16_init_done # 0 THEN "calc" ELSE "fill"]
    /\ UNCHANGED << crc16_table, crc16_init_done >>
    /\ UNCHANGED << bitVars, rsVars, kmpVars, jdVars >>

\* one iteration of for (i = 0; i < 256; i++): crc16_table[i] = c
crc16_init_store(t) ==
    /\ thr[t].pc = "fill"
    /\ thr[t].i < CrcEntries
    /\ crc16_table' = [crc16_table EXCEPT ![thr[t].i] = crc16_entry(thr[t].i)]
    /\ thr' = [thr EXCEPT ![t].i = @ + 1]
    /\ UNCHANGED crc16_init_done
    /\ UNCHANGED << bitVars, rsVars, kmpVars, jdVars >>

\* crc16_init_done = 1 in program order, after the loop, and return to
\* crc16_ccitt
crc16_init_return(t) ==
    /\ thr[t].pc = "fill"
    /\ thr[t].i = CrcEntries
    /\ crc16_init_done' = 1
    /\ thr' = [thr EXCEPT ![t].pc = "calc", ![t].flag_stored = TRUE]
    /\ UNCHANGED crc16_table
    /\ UNCHANGED << bitVars, rsVars, kmpVars, jdVars >>

\* crc16_init_done and crc16_table are plain objects written and read by
\* several threads without synchronisation (a data race): nothing orders
\* the store to the flag after the stores to the table, so the flag may
\* be set while entries are still to be stored
crc16_flag_stored_early(t) ==
    /\ thr[t].pc = "fill"
    /\ thr[t].i < CrcEntries
    /\ ~ thr[t].flag_stored
    /\ crc16_init_done' = 1
    /\ thr' = [thr EXCEPT ![t].flag_stored = TRUE]
    /\ UNCHANGED crc16_table
    /\ UNCHANGED << bitVars, rsVars, kmpVars, jdVars >>

\* one iteration of the loop of crc16_ccitt, and the return after the
\* last one
crc16_ccitt_step(t) ==
    /\ thr[t].pc = "calc"
    /\ thr' = [thr EXCEPT
                 ![t].crc = crc16_step(crc16_table, @, thr[t].buf[thr[t].k]),
                 ![t].k = @ + 1,
                 ![t].pc = IF thr[t].k = Len(thr[t].buf) THEN "done" ELSE "calc"]
    /\ UNCHANGED << crc16_table, crc16_init_done >>
    /\ UNCHANGED << bitVars, rsVars, kmpVars, jdVars >>

-----------------------------------------------------------------------------
(* PART IV.  bitunwrap.cpp : a BitKMP object fed with arbitrary bits        *)

MaxKmpPat == 3     \* longest pattern given to BitKMP::reset
MaxFed    == 6     \* most bits passed to feed

\* no BitKMP object is exercised
KmpParked ==
    /\ kmp = BitKMP_reset(<< >>)
    /\ fed = << >>
    /\ hit = FALSE

\* one call kmp.feed(b)
KmpFeedBit ==
    /\ Len(fed) < MaxFed
    /\ \E b \in {0, 1} :
          LET f == BitKMP_feed(kmp, b)
          IN  /\ kmp' = f.k
              /\ hit' = f.hit
              /\ fed' = Append(fed, b)
    /\ UNCHANGED << bitVars, rsVars, crcVars, jdVars >>

-----------------------------------------------------------------------------
(* PART V.  Jammer detector : main loop, Detector::run, PlutoSource         *)

MaxPasses == 3     \* most calls of run_detection
MaxFrames == 4     \* largest detect_max_frames
MaxConsec == 2     \* largest detect_jammer_consecutive

\* DetectConfig::threshold_dbm
threshold_dbm == 0 - 50

\* what PowerMeter::power_dbm returns for a frame: below, at and above the
\* threshold
Powers == {threshold_dbm - 1, threshold_dbm, threshold_dbm + 1}

\* Detector::run not running
DetIdle == [pc |-> "idle", idx |-> 0, jam_cnt |-> 0]

\* the jammer detector is not used
JdParked ==
    /\ g_stop = FALSE /\ rxbuf_ = FALSE
    /\ p_ = [detect_jammer_consecutive |-> 0, detect_max_frames |-> 0]
    /\ main_pc = "publish"
    /\ det = DetIdle /\ out = "none" /\ seen = << >> /\ passes = 0

\* static void on_sigint(int) / the STOP datagram of CtrlServer
on_sigint ==
    /\ ~ g_stop
    /\ g_stop' = TRUE
    /\ UNCHANGED << rxbuf_, p_, main_pc, det, out, seen, passes >>
    /\ UNCHANGED << bitVars, rsVars, crcVars, kmpVars >>

\* a comparison that also counts a frame at the threshold
above_or_at(pd, threshold) == pd >= threshold

\* pd > cfg_.threshold_dbm
above(pd, threshold) == pd > threshold

\* PlutoSource::release(): buffer cancelled and destroyed, context destroyed
release == FALSE

\* the test of  while (!g_stop && !leave_detection)  and, when the loop
\* is entered, the call det.run_detection() up to the first test of the
\* for loop of Detector::run; when it is left, shutdown_rx_only and
\* src.release()
main_detection_loop ==
    /\ main_pc = "loop"
    /\ IF g_stop
       THEN /\ main_pc' = "publish"
            /\ rxbuf_' = release
            /\ UNCHANGED << det, seen, passes >>
       ELSE /\ passes < MaxPasses
            /\ main_pc' = "pass"
            /\ det' = [pc |-> "run", idx |-> 1, jam_cnt |-> 0]
            /\ seen' = << >>
            /\ passes' = passes + 1
            /\ UNCHANGED rxbuf_
    /\ UNCHANGED << g_stop, p_, out >>
    /\ UNCHANGED << bitVars, rsVars, crcVars, kmpVars >>

\* one test of  for (idx = 1; idx <= cfg_.max_frames; ++idx)  of
\* Detector::run and, when the loop is entered, its body: get_frame (which
\* fails when rxbuf_ is null or iio_buffer_refill returns <= 0), power_dbm
\* and the counting; seen notes each read of get_frame
DetectorStep ==
    /\ det.pc = "run"
    /\ IF det.idx > p_.detect_max_frames
       THEN /\ rxbuf_' = release
            /\ out' = "CompletedNoSustain"
            /\ det' = [det EXCEPT !.pc = "ret"]
            /\ UNCHANGED seen
       ELSE \E ok \in (IF rxbuf_ THEN {TRUE, FALSE} ELSE {FALSE}), pd \in Powers :
              IF ~ ok
              THEN /\ pd = threshold_dbm
                   /\ seen' = Append(seen, [ok |-> FALSE, pd |-> pd])
                   /\ out' = "SourceEnded"
                   /\ det' = [det EXCEPT !.pc = "ret"]
                   /\ UNCHANGED rxbuf_
              ELSE /\ seen' = Append(seen, [ok |-> TRUE, pd |-> pd])
                   /\ IF above(pd, threshold_dbm)
                      THEN IF det.jam_cnt + 1 >= p_.detect_jammer_consecutive
                           THEN /\ rxbuf_' = release
                                /\ out' = "SustainedJammer"
                                /\ det' = [det EXCEPT !.pc = "ret", !.jam_cnt = @ + 1]
                           ELSE /\ det' = [det EXCEPT !.jam_cnt = @ + 1, !.idx = @ + 1]
                                /\ UNCHANGED << rxbuf_, out >>
                      ELSE /\ det' = [det EXCEPT !.jam_cnt = 0, !.idx = @ + 1]
                           /\ UNCHANGED << rxbuf_, out >>
    /\ UNCHANGED << g_stop, p_, main_pc, passes >>
    /\ UNCHANGED << bitVars, rsVars, crcVars, kmpVars >>

\* the body of the while loop of main after run_detection has returned:
\* SourceEnded and SustainedJammer leave the loop (then shutdown_rx_only
\* and src.release()), CompletedNoSustain goes back to its test
main_after_pass ==
    /\ main_pc = "pass" /\ det.pc = "ret"
    /\ det' = DetIdle
    /\ IF out \in {"SourceEnded", "SustainedJammer"}
       THEN /\ main_pc' = "publish"
            /\ rxbuf_' = release
       ELSE /\ main_pc' = "loop"
            /\ UNCHANGED rxbuf_
    /\ UNCHANGED << g_stop, p_, out, seen, passes >>
    /\ UNCHANGED << bitVars, rsVars, crcVars, kmpVars >>

-----------------------------------------------------------------------------
(* Initial states                                                           *)

\* nothing called yet: g_cancel = 0, g_rs_stats zero-initialised
RsIdle ==
    /\ g_cancel = 0
    /\ g_rs_stats = rs_stats_reset
    /\ pk = PackIdle /\ pk_ret = 0
    /\ cfile = NoFile
    /\ un = UnpackIdle /\ un_ret = 0
    /\ tab = << >>
    /\ ofile = << >>
    /\ ch = NoChannel
    /\ prev = NoPrev
    /\ held = {}

\* the RS container is not used
RsParked ==
    /\ in_len = 0 /\ in_kind = "zero"
    /\ a_r = R_DEFAULT /\ a_il_depth = IL_DEPTH_DEFAULT
    /\ a_slice_bytes = SLICE_BYTES_DEFAULT /\ a_pad_mode = RS_PAD_MODE
    /\ RsIdle

\* the bit codec is not used
BitParked ==
    /\ in_bytes = << >>
    /\ start_flag_bits = << >> /\ end_flag_bits = << >>
    /\ dummy_left_bits = 0 /\ dummy_right_bits = 0
    /\ BitIdle

\* the small family of calls of the bit codec
InitBits ==
    /\ in_bytes \in SeqsUpTo(ByteAlphabet, MaxIn)
    /\ start_flag_bits \in PatStrings
    /\ end_flag_bits \in PatStrings
    /\ dummy_left_bits \in 0..MaxDummy
    /\ dummy_right_bits \in 0..MaxDummy
    /\ BitIdle
    /\ RsParked
    /\ CrcParked
    /\ KmpParked
    /\ JdParked

\* Scenario E of the specification: AA BB CC, "10101010", "01010101", 5, 7
InitScenE ==
    /\ in_bytes = <<170, 187, 204>>
    /\ start_flag_bits = <<"1","0","1","0","1","0","1","0">>
    /\ end_flag_bits   = <<"0","1","0","1","0","1","0","1">>
    /\ dummy_left_bits = 5
    /\ dummy_right_bits = 7
    /\ BitIdle
    /\ RsParked
    /\ CrcParked
    /\ KmpParked
    /\ JdParked

SpecBits  == InitBits /\ [][BitNext]_vars

\* wrap_file_bits alone, with dummy runs shorter and longer than a byte and
\* patterns that leave the writer aligned (lengths 0, or 3 and 5) or not
InitWrap ==
    /\ in_bytes \in SeqsUpTo(ByteAlphabet, MaxIn)
    /\ start_flag_bits \in {<< >>, <<"1","0","1">>, <<"1","0","1","1","0">>}
    /\ end_flag_bits \in {<< >>, <<"0","1","0">>, <<"0","1","0","0","1">>}
    /\ dummy_left_bits \in {0, 9}
    /\ dummy_right_bits \in {0, 8, 10}
    /\ BitIdle
    /\ RsParked
    /\ CrcParked
    /\ KmpParked
    /\ JdParked

WrapNext ==
    \/ wrap_file_bits

SpecWrap == InitWrap /\ [][WrapNext]_vars
SpecScenE == InitScenE /\ [][BitNext]_vars

\* wrap, then unwrap of the wrapped file or of a leading part of it: inputs
\* of one and two bytes, patterns of one to three bits
InitBitsCut ==
    /\ in_bytes \in {<<165>>, <<165, 165>>, <<0, 165>>}
    /\ start_flag_bits \in {<<"1">>, <<"1","0">>}
    /\ end_flag_bits \in {<<"1","1">>, <<"0","0","0">>}
    /\ dummy_left_bits \in {0, 1}
    /\ dummy_right_bits \in {0, 8}
    /\ BitIdle
    /\ RsParked
    /\ CrcParked
    /\ KmpParked
    /\ JdParked

BitsCutNext ==
    \/ BitNext
    \/ CutWrappedFile

SpecBitsCut == InitBitsCut /\ [][BitsCutNext]_vars

\* input lengths: empty, one byte, an underfull single frame (Scenario A),
\* exactly one frame, one frame and one byte, three frames the last underfull
RoundTripLens == {0, 1, 10000, FRAME_BYTES, FRAME_BYTES + 1, 30000}

\* pack / unpack on an unmodified container, no cancellation
InitRoundTrip ==
    /\ in_len \in RoundTripLens
    /\ in_kind \in {"zero", "ramp"}
    /\ a_r \in {1, R_DEFAULT, MAX_R}
    /\ a_il_depth \in {1, IL_DEPTH_DEFAULT}
    /\ a_slice_bytes \in {SLICE_BYTES_DEFAULT, 5000}
    /\ a_pad_mode = RS_PAD_MODE
    /\ RsIdle
    /\ BitParked
    /\ CrcParked
    /\ KmpParked
    /\ JdParked

PackNext ==
    \/ rs_pack_container_ex
    \/ PackGroup
    \/ PackStride
    \/ PackReturn

UnpackNext ==
    \/ rs_unpack_container_ex
    \/ ScanStep
    \/ DecodeStep
    \/ UnpackReturn

RoundTripNext ==
    \/ PackNext
    \/ UnpackNext

SpecRoundTrip == InitRoundTrip /\ [][RoundTripNext]_vars

\* Scenarios A and B: a 10,000-byte input, and a full frame, r = 16; at
\* most MaxLoss slice records of the container are removed or altered
InitLoss ==
    /\ in_len \in {10000, FRAME_BYTES}
    /\ in_kind \in {"ramp", "sparse"}
    /\ a_r = 16 /\ a_il_depth = IL_DEPTH_DEFAULT /\ a_slice_bytes = SLICE_BYTES_DEFAULT
    /\ a_pad_mode = RS_PAD_MODE
    /\ RsIdle
    /\ BitParked
    /\ CrcParked
    /\ KmpParked
    /\ JdParked

LossNext ==
    \/ PackNext
    \/ ChDropSlice
    \/ ChCorruptSlice
    \/ UnpackNext

SpecRsLoss == InitLoss /\ [][LossNext]_vars

\* Scenario C: the 10,000-byte input of Scenario A, r = 16, default
\* interleave depth and slice size
InitScenC ==
    /\ in_len = 10000
    /\ in_kind \in InKinds
    /\ a_r = 16 /\ a_il_depth = IL_DEPTH_DEFAULT /\ a_slice_bytes = SLICE_BYTES_DEFAULT
    /\ a_pad_mode = RS_PAD_MODE
    /\ RsIdle
    /\ BitParked
    /\ CrcParked
    /\ KmpParked
    /\ JdParked

ScenCNext ==
    \/ PackNext
    \/ ChDropFirstSlice
    \/ UnpackNext

SpecRsScenC == InitScenC /\ [][ScenCNext]_vars

\* a one-frame container whose slices hold at most r shards (r = 63,
\* slices of 4000 bytes) and a two-frame container whose slices hold more
\* (r = 16, slices of 5000 bytes) unpacked with every pad mode, then
\* unpacked a second time
InitTwice ==
    /\ \E c \in {<< FRAME_BYTES, MAX_R, 4000, RS_PAD_MODE >>,
                  << FRAME_BYTES + 1, 16, 5000, 0 >>,
                  << FRAME_BYTES + 1, 16, 5000, 1 >>,
                  << FRAME_BYTES + 1, 16, 5000, 2 >>} :
          in_len = c[1] /\ a_r = c[2] /\ a_slice_bytes = c[3] /\ a_pad_mode = c[4]
    /\ in_kind = "ramp"
    /\ a_il_depth = IL_DEPTH_DEFAULT
    /\ RsIdle
    /\ BitParked
    /\ CrcParked
    /\ KmpParked
    /\ JdParked

TwiceNext ==
    \/ PackNext
    \/ ChCorruptSlice
    \/ UnpackNext
    \/ RerunWithoutBadSlices
    \/ RerunWithoutFrame

SpecRsTwice == InitTwice /\ [][TwiceNext]_vars

\* containers of one and two frames, three slices a frame, with bytes
\* inserted or the end cut off
InitResync ==
    /\ in_len \in {10000, FRAME_BYTES + 1}
    /\ in_kind = "ramp"
    /\ a_r = 16 /\ a_il_depth \in {1, IL_DEPTH_DEFAULT} /\ a_slice_bytes = 5000
    /\ a_pad_mode = RS_PAD_MODE
    /\ RsIdle
    /\ BitParked
    /\ CrcParked
    /\ KmpParked
    /\ JdParked

ResyncNext ==
    \/ PackNext
    \/ ChInsert
    \/ ChTruncate
    \/ UnpackNext

SpecRsResync == InitResync /\ [][ResyncNext]_vars

\* pack and unpack of a two-frame input with the host calling
\* rs_request_cancel at any moment
InitCancel ==
    /\ in_len = FRAME_BYTES + 1
    /\ in_kind = "ramp"
    /\ a_r = 1 /\ a_il_depth \in {1, IL_DEPTH_DEFAULT} /\ a_slice_bytes = 5000
    /\ a_pad_mode = RS_PAD_MODE
    /\ RsIdle
    /\ BitParked
    /\ CrcParked
    /\ KmpParked
    /\ JdParked

CancelNext ==
    \/ PackNext
    \/ UnpackNext
    \/ rs_request_cancel

SpecRsCancel == InitCancel /\ [][CancelNext]_vars

\* rs_pack_container_ex called with arguments inside and outside their
\* ranges (r: [1, 63]; il_depth, slice_bytes: positive, below and above
\* 65536), on an empty, a one-frame and a three-frame input
InitArgs ==
    /\ in_len \in {0, 10000, 30000}
    /\ in_kind = "ramp"
    /\ a_r \in {0 - 1, 0, 1, R_DEFAULT, MAX_R, MAX_R + 1}
    /\ a_il_depth \in {0, 1, 2, IL_DEPTH_DEFAULT, 65536, 65536 + 2}
    /\ a_slice_bytes \in {0, 5000, 65536, 65536 + 5000}
    /\ a_pad_mode = RS_PAD_MODE
    /\ RsIdle
    /\ BitParked
    /\ CrcParked
    /\ KmpParked
    /\ JdParked

ArgsNext ==
    \/ PackNext

SpecRsArgs == InitArgs /\ [][ArgsNext]_vars

\* the same with the thread that called pack running on: a step of pack
\* that stays possible is taken
SpecRsArgsFair == InitArgs /\ [][ArgsNext]_vars /\ WF_vars(ArgsNext)

\* containers of one and two frames whose global header is damaged before
\* the first or before a second unpack, every pad mode
InitHeader ==
    /\ in_len \in {10000, FRAME_BYTES + 1}
    /\ in_kind = "ramp"
    /\ a_r = R_DEFAULT /\ a_il_depth = IL_DEPTH_DEFAULT /\ a_slice_bytes = 5000
    /\ a_pad_mode \in {0, 1, 2}
    /\ RsIdle
    /\ BitParked
    /\ CrcParked
    /\ KmpParked
    /\ JdParked

HeaderNext ==
    \/ PackNext
    \/ ChDamageHeader
    \/ UnpackNext

SpecRsHeader == InitHeader /\ [][HeaderNext]_vars

\* one-frame containers: an underfull frame in two slices (the first slice
\* holds the data shards, or the data, the parity and the first part of
\* the data CRC-16 table), and a frame one byte short of full in five
\* slices holding fewer than r shards each (r = 63); slice records are
\* lost, repeated or added
InitAdded ==
    /\ \E c \in {<< 10000, R_DEFAULT, FRAME_BYTES >>,
                  << 10000, R_DEFAULT, 13500 >>,
                  << FRAME_BYTES - 1, MAX_R, 4000 >>} :
          in_len = c[1] /\ a_r = c[2] /\ a_slice_bytes = c[3]
    /\ in_kind = "ramp"
    /\ a_il_depth = IL_DEPTH_DEFAULT
    /\ a_pad_mode = RS_PAD_MODE
    /\ RsIdle
    /\ BitParked
    /\ CrcParked
    /\ KmpParked
    /\ JdParked

AddedNext ==
    \/ PackNext
    \/ ChDropSlice
    \/ ChDuplicateSlice
    \/ ChForgeSlice
    \/ UnpackNext

SpecRsAdded == InitAdded /\ [][AddedNext]_vars

\* well-formed containers unpacked, then unpacked again with their records
\* in another order and frame headers removed: one underfull frame in three
\* slices, two frames of one slice each, three frames (the last underfull)
\* of three slices each
InitRearranged ==
    /\ \E c \in {<< 10000, 5000, RS_PAD_MODE >>,
                  << FRAME_BYTES + 1, 13728, 1 >>,
                  << 30000, 5000, 2 >>} :
          in_len = c[1] /\ a_slice_bytes = c[2] /\ a_pad_mode = c[3]
    /\ in_kind = "ramp"
    /\ a_r = R_DEFAULT
    /\ a_il_depth = IL_DEPTH_DEFAULT
    /\ RsIdle
    /\ BitParked
    /\ CrcParked
    /\ KmpParked
    /\ JdParked

RearrangedNext ==
    \/ PackNext
    \/ UnpackNext
    \/ RerunRearranged

SpecRsRearranged == InitRearranged /\ [][RearrangedNext]_vars

\* pack and unpack of an empty and of a two-frame input, the host calling
\* rs_request_cancel before the calls only
InitFlagHeld ==
    /\ in_len \in {0, FRAME_BYTES + 1}
    /\ in_kind = "ramp"
    /\ a_r \in {1, R_DEFAULT} /\ a_il_depth \in {1, IL_DEPTH_DEFAULT} /\ a_slice_bytes = 5000
    /\ a_pad_mode = RS_PAD_MODE
    /\ RsIdle
    /\ BitParked
    /\ CrcParked
    /\ KmpParked
    /\ JdParked

FlagHeldNext ==
    \/ PackNext
    \/ UnpackNext
    \/ rs_request_cancel_between_calls

SpecRsFlagHeld == InitFlagHeld /\ [][FlagHeldNext]_vars

\* NumThreads threads, each about to make the first call of crc16_ccitt
\* in the process
InitCrc ==
    /\ crc16_table = [n \in 0..(CrcEntries - 1) |-> 0]
    /\ crc16_init_done = 0
    /\ thr \in [Threads -> {ThreadIdle(buf) : buf \in CrcBufs}]
    /\ BitParked
    /\ RsParked
    /\ KmpParked
    /\ JdParked

CrcNext ==
    \E t \in Threads :
        \/ crc16_init_test(t)
        \/ crc16_init_store(t)
        \/ crc16_init_return(t)
        \/ crc16_flag_stored_early(t)
        \/ crc16_ccitt_step(t)

SpecCrcInit == InitCrc /\ [][CrcNext]_vars

\* a BitKMP object constructed with a non-empty pattern of up to MaxKmpPat
\* bits, before the first call of feed
InitKmp ==
    /\ \E pat \in SeqsUpTo({0, 1}, MaxKmpPat) \ {<< >>} : kmp = BitKMP_reset(pat)
    /\ fed = << >>
    /\ hit = FALSE
    /\ BitParked
    /\ RsParked
    /\ CrcParked
    /\ JdParked

KmpNext ==
    \/ KmpFeedBit

SpecKmp == InitKmp /\ [][KmpNext]_vars

\* main after the calibration, before the detection loop: the source was
\* constructed (rxbuf_ allocated) or its construction failed
InitJd ==
    /\ g_stop = FALSE
    /\ rxbuf_ \in BOOLEAN
    /\ p_ \in [detect_jammer_consecutive : 0..MaxConsec, detect_max_frames : 0..MaxFrames]
    /\ main_pc = "loop"
    /\ det = DetIdle /\ out = "none" /\ seen = << >> /\ passes = 0
    /\ BitParked
    /\ RsParked
    /\ CrcParked
    /\ KmpParked

JdNext ==
    \/ main_detection_loop
    \/ DetectorStep
    \/ main_after_pass
    \/ on_sigint

SpecJd == InitJd /\ [][JdNext]_vars

-----------------------------------------------------------------------------
(* Properties of the bit codec                                              *)

\* the wrapped file as a bit stream, and pattern occurrences in it, stated
\* without the matcher
WBits == BytesToBits(w_file)
SBits == parse_bitstring_(start_flag_bits)
EBits == parse_bitstring_(end_flag_bits)

OccursAt(W, pat, p) ==
    /\ p >= 1
    /\ p + Len(pat) - 1 <= Len(W)
    /\ \A i \in 1..Len(pat) : W[p + i - 1] = pat[i]

\* 1-based index of the first bit of the first occurrence at or after from; 0 if none
FirstOcc(W, pat, from) ==
    LET hits == {p \in from..Len(W) : OccursAt(W, pat, p)}
    IN  IF hits = {} THEN 0 ELSE CHOOSE p \in hits : \A q \in hits : p <= q

\* where wrap put the two sentinels (1-based index of their first bit)
EmittedStartAt == dummy_left_bits + 1
EmittedEndAt   == dummy_left_bits + Len(SBits) + 8 * Len(in_bytes) + 1

UnwrapRan == u_pc = "done" /\ u_ret # -3

\* the first start occurrence is the emitted one and the first end
\* occurrence after it is the emitted one
SentinelsUnambiguous ==
    /\ FirstOcc(WBits, SBits, 1) = EmittedStartAt
    /\ FirstOcc(WBits, EBits, EmittedStartAt + Len(SBits)) = EmittedEndAt

\* C3 (as claimed): for every input, every pair of non-empty patterns and
\* every (L, R, seed), unwrap(wrap(input)) returns 0 and yields exactly the
\* input bytes, whatever the dummy bits and the payload contain.
C3_RoundTripUnconditional ==
    UnwrapRan => (u_ret = 0 /\ bw.out = in_bytes)

\* C3 (amended): unwrap(wrap(input)) always returns 0, and yields exactly
\* the input bytes provided the first occurrence of P_s in the wrapped
\* stream is the emitted one and the first occurrence of P_e after it is
\* the emitted one.
C3_RoundTripUnambiguous ==
    UnwrapRan => /\ u_ret = 0
                 /\ SentinelsUnambiguous => bw.out = in_bytes

C3_Witness ==
    /\ UnwrapRan /\ SentinelsUnambiguous
    /\ Len(in_bytes) >= 1 /\ dummy_left_bits >= 1 /\ dummy_right_bits >= 1
    /\ bw.out = in_bytes

\* 1-based index of the last bit of the first occurrence at or after from; 0 if none
FirstOccEnd(W, pat, from) ==
    LET p == FirstOcc(W, pat, from)
    IN  IF p = 0 THEN 0 ELSE p + Len(pat) - 1

\* the first start occurrence ends at bit L + |P_s| and the first end
\* occurrence in the bits after it ends at the last bit of the emitted P_e
FirstOccurrencesEndWhereEmitted ==
    /\ FirstOccEnd(WBits, SBits, 1) = dummy_left_bits + Len(SBits)
    /\ FirstOccEnd(WBits, EBits, dummy_left_bits + Len(SBits) + 1)
          = dummy_left_bits + Len(SBits) + 8 * Len(in_bytes) + Len(EBits)

\* C30: if the first occurrence of the start pattern in the wrapped stream
\* ends exactly at bit L + |P_s| and the first occurrence of the end
\* pattern in the bits after it ends exactly at the last bit of P_e, then
\* unwrap(wrap(input)) returns 0 and outputs exactly the input bytes (for
\* patterns unwrap_file_bits accepts).
C30_RoundTripWhenFirstOccurrencesAreEmitted ==
    (UnwrapRan /\ FirstOccurrencesEndWhereEmitted)
        => (u_ret = 0 /\ bw.out = in_bytes /\ bw.bit_off_ = 0)

\* a run where the start pattern occurs again behind the emitted one
C30_Witness ==
    /\ UnwrapRan /\ FirstOccurrencesEndWhereEmitted
    /\ in_bytes # << >> /\ dummy_left_bits >= 1
    /\ FirstOcc(WBits, SBits, dummy_left_bits + 2) # 0
    /\ u_ret = 0 /\ bw.out = in_bytes

DummyEndsIn10 == WBits[4] = 1 /\ WBits[5] = 0

C10_PositionsOneBased ==
    (u_pc = "done" /\ u_ret = 0) =>
        /\ g_last_start_flag_pos = FirstOcc(WBits, SBits, 1)
        /\ g_last_end_flag_pos =
              FirstOcc(WBits, EBits, FirstOcc(WBits, SBits, 1) + Len(SBits))

-----------------------------------------------------------------------------
(* The layout of the wrapped file                                           *)

\* the n dummy bits write_dummy_bits_ derives from the values rngs of rng():
\* the bits of the whole bytes, then the top n % 8 bits of the last value
DummyBits(n, rngs) == SubSeq(BytesToBits(rngs), 1, n)

\* the bit sequence the wrapped file has to hold for these rng() values
WrapLayout(rl, rr) ==
    DummyBits(dummy_left_bits, rl) \o SBits \o BytesToBits(in_bytes) \o EBits
        \o DummyBits(dummy_right_bits, rr)

\* C23: the bits of wrap_file_bits's output, most significant bit of each
\* byte first, are L dummy bits, P_s, the 8n input bits, P_e, R dummy bits
\* and then fewer than 8 zero bits; the file has
\* ceil((L + |P_s| + 8n + |P_e| + R) / 8) bytes; this is so whether
\* write_full_bytes took the byte-aligned fast path or the bit-by-bit path.
C23_WrapLayout ==
    (w_pc = "done" /\ w_ret = 0) =>
        \E rl \in RngSeqs(dummy_left_bits), rr \in RngSeqs(dummy_right_bits) :
            LET E == WrapLayout(rl, rr)
            IN  /\ Len(E) = dummy_left_bits + Len(SBits) + 8 * Len(in_bytes)
                              + Len(EBits) + dummy_right_bits
                /\ Len(w_file) = (Len(E) + 7) \div 8
                /\ SubSeq(WBits, 1, Len(E)) = E
                /\ \A i \in (Len(E) + 1)..Len(WBits) : WBits[i] = 0

\* an input byte written bit by bit behind 9 + 3 bits, whole dummy bytes
\* written bit by bit behind it, zero padding at the end
C23_Witness ==
    /\ w_pc = "done" /\ w_ret = 0
    /\ dummy_left_bits = 9 /\ dummy_right_bits = 10
    /\ Len(SBits) = 3 /\ Len(EBits) = 3 /\ in_bytes = << 165 >>
    /\ Len(w_file) = 5
    /\ SubSeq(WBits, 13, 20) = ByteBits(165)
    /\ SubSeq(WBits, 24, 31) = ByteBits(255)

\* the same with every write_full_bytes on the fast path
C23_WitnessAligned ==
    /\ w_pc = "done" /\ w_ret = 0
    /\ dummy_left_bits = 9 /\ dummy_right_bits = 8
    /\ Len(SBits) = 5 /\ Len(EBits) = 3 /\ in_bytes = << 165 >>
    /\ Len(w_file) = 5

-----------------------------------------------------------------------------
(* The tail window of unwrap                                                *)

\* the bits unwrap's BitWriter has received: the flushed bytes and the
\* bit_off_ bits held in acc_
Emitted(w) == BytesToBits(w.out) \o [i \in 1..w.bit_off_ |-> BitOf(w.acc_, 8 - i)]

\* number of bits read when the start pattern matched
StartMatchedAt == g_last_start_flag_pos + Len(SBits)

\* the bits from .. to of the wrapped stream (1-based, empty when to < from)
StreamBits(from, to) == SubSeq(WBits, from, to)

\* C28: once the start pattern has matched, if the first match of the end
\* pattern terminates at the n-th subsequent bit, the bits written to the
\* output are exactly the first n - |end| of those bits, in order, followed
\* only by zero padding to a byte boundary (no bit of the end sentinel is
\* written); between iterations the FIFO holds at most |end| bits (so never
\* more than |end| + 1 inside one), and at the match at least |end| bits
\* were read, so the clear-all branch is not taken.
C28_TailWindow ==
    /\ u_pc = "scan_end" =>
          /\ Len(tail) <= Len(EBits)
          /\ Emitted(bw) \o tail = StreamBits(StartMatchedAt + 1, bit_index)
    /\ (u_pc = "done" /\ u_ret = 0) =>
          LET n    == bit_index - StartMatchedAt
              kept == n - Len(EBits)
          IN  /\ n >= Len(EBits)
              /\ bw.bit_off_ = 0
              /\ Len(bw.out) = (kept + 7) \div 8
              /\ SubSeq(BytesToBits(bw.out), 1, kept)
                    = StreamBits(StartMatchedAt + 1, StartMatchedAt + kept)
              /\ \A i \in (kept + 1)..(8 * Len(bw.out)) : BytesToBits(bw.out)[i] = 0
              /\ FirstOcc(WBits, EBits, StartMatchedAt + 1) = bit_index - Len(EBits) + 1

\* an output that ends inside a byte: 3 bits kept before a 2-bit end
\* pattern, padded with zeros
C28_Witness ==
    /\ u_pc = "done" /\ u_ret = 0
    /\ Len(EBits) = 2
    /\ bit_index - StartMatchedAt = 5
    /\ Len(bw.out) = 1
    /\ SubSeq(BytesToBits(bw.out), 1, 3) = StreamBits(StartMatchedAt + 1, StartMatchedAt + 3)

-----------------------------------------------------------------------------
(* BitKMP                                                                   *)

\* the last Len(pat) bits of a stream are pat
EndsWith(stream, pat) ==
    /\ Len(stream) >= Len(pat)
    /\ SubSeq(stream, Len(stream) - Len(pat) + 1, Len(stream)) = pat

\* C29: for every non-empty pattern P and every bit stream, feed returns
\* true at step t exactly when the last |P| bits fed (steps t-|P|+1 .. t)
\* equal P, matches that overlap an earlier match included; between calls
\* the index j_ is in [0, |P|-1], so pat_[j_] is inside the pattern.
C29_FeedMatchesExactly ==
    kmp.pat_ # << >> =>
        /\ kmp.j_ \in 0..(Len(kmp.pat_) - 1)
        /\ fed # << >> => (hit <=> EndsWith(fed, kmp.pat_))

\* a match that overlaps the match two bits earlier
C29_Witness ==
    /\ kmp.pat_ = << 1, 0, 1 >>
    /\ fed = << 1, 0, 1, 0, 1 >>
    /\ hit

-----------------------------------------------------------------------------
(* unwrap_file_bits : a pattern is not found                                *)

\* index of the last bit of the first occurrence of the start pattern in
\* the file unwrap reads, 0 if there is none
StartEndsAt == FirstOccEnd(WBits, SBits, 1)

\* the bits of the file behind the first start pattern
BitsBehindStart == Len(WBits) - StartEndsAt

\* C33 (as claimed): when unwrap_file_bits returns -4 nothing has been
\* written to the output file.
C33_NoOutputOnFailure ==
    (u_pc = "done" /\ u_ret = -4) => bw.out = << >>

\* C33 (amended): when unwrap_file_bits returns -4 because the start
\* pattern was not found the output file is empty; when the end pattern
\* was not found it holds the whole bytes of the bits that had left the
\* tail window, i.e. of all bits behind the start pattern but the last
\* |P_e|, and the bits of an unfinished byte are not written.
C33_OutputOnFailure ==
    (u_pc = "done" /\ u_ret = -4) =>
        IF StartEndsAt = 0 THEN bw.out = << >> /\ bw.bit_off_ = 0
        ELSE LET left == IF BitsBehindStart > Len(EBits)
                         THEN BitsBehindStart - Len(EBits) ELSE 0
             IN  /\ FirstOcc(WBits, EBits, StartEndsAt + 1) = 0
                 /\ Len(bw.out) = left \div 8
                 /\ bw.bit_off_ = left % 8
                 /\ Emitted(bw) = SubSeq(WBits, StartEndsAt + 1, StartEndsAt + left)

\* the end pattern is cut off a two-byte payload: one payload byte is in
\* the output file, further bits wait in the writer
C33_Witness ==
    /\ u_pc = "done" /\ u_ret = -4
    /\ in_bytes = <<165, 165>>
    /\ StartEndsAt > 0
    /\ bw.out = <<165>> /\ bw.bit_off_ > 0

\* nothing is left of the file, the start pattern is not found
C33_WitnessNoStart ==
    /\ u_pc = "done" /\ u_ret = -4
    /\ w_file = << >> /\ StartEndsAt = 0
    /\ bw.out = << >>

-----------------------------------------------------------------------------
(* Properties of the RS container                                           *)

RECURSIVE OutLenFrom(_, _)
OutLenFrom(chunks, k) ==
    IF k > Len(chunks) THEN 0 ELSE chunks[k].n + OutLenFrom(chunks, k + 1)

\* number of bytes of an output file
OutLen(chunks) == OutLenFrom(chunks, 1)

\* the chunk of frame f written to an output file holds the input's bytes
ChunkIsInput(c) ==
    /\ c.at = c.f * FRAME_BYTES
    /\ IF c.zero THEN \A x \in 0..(c.n - 1) : DataByte(c.f, x) = 0
       ELSE c.dev = {}

\* the output file equals the input file byte for byte
OutputEqualsInput ==
    /\ OutLen(ofile) = in_len
    /\ \A k \in DOMAIN ofile : ChunkIsInput(ofile[k])

\* C1: for every input length (underfull last frames included) and every
\* valid r, pack followed by unpack of the unmodified container returns 0
\* from both, the output equals the input byte for byte, and
\* rs_fail_columns = 0 and corrected_symbols = 0.
C1_RoundTrip ==
    /\ pk.pc = "done" => pk_ret = 0
    /\ un.pc = "done" => /\ un_ret = 0
                         /\ OutputEqualsInput
                         /\ g_rs_stats.rs_fail_columns = 0
                         /\ g_rs_stats.corrected_symbols = 0

C1_Witness ==
    /\ un.pc = "done" /\ un_ret = 0 /\ pk_ret = 0
    /\ in_len = 30000 /\ in_kind = "ramp" /\ a_r = MAX_R
    /\ g_rs_stats.used_erasures_cols > 0
    /\ OutputEqualsInput
    /\ g_rs_stats.slices_ok = g_rs_stats.slices_total_est

-----------------------------------------------------------------------------
(* Loss of shards                                                           *)

\* every slice record pack wrote for frame f that holds bytes of the
\* CRC-16 tables is in the file as pack wrote it
TablesIntact(f) ==
    LET b3 == FRAME_BYTES + pk.r * SHARD_LEN
    IN  \A o \in {x \in 0..(pk.PAY - 1) : x % pk.S = 0 /\ x + pk.S > b3} :
            \E k \in DOMAIN cfile.recs :
                /\ cfile.recs[k].magic = "RSL4" /\ cfile.recs[k].genuine
                /\ cfile.recs[k].index = f /\ cfile.recs[k].offset = o

\* the data and parity shards of frame f that did not arrive
LostShards(f) ==
    Cardinality(BadShards(tab[f].data, f, K_SHARDS, 0))
    + Cardinality(BadShards(tab[f].par, f, un.r, FRAME_BYTES))

\* C2: a frame whose CRC-16 tables arrive intact and of whose data and
\* parity shards at most r are corrupted or lost is reconstructed exactly,
\* full or underfull, and rs_fail_columns stays 0.
C2_UpToRShardsRecover ==
    (un.pc = "done" /\ un_ret = 0) =>
        \A k \in DOMAIN ofile :
            (/\ ~ ofile[k].zero
             /\ TablesIntact(ofile[k].f)
             /\ LostShards(ofile[k].f) <= un.r)
            => /\ ofile[k].dev = {}
               /\ g_rs_stats.rs_fail_columns = 0

\* the same for frames that are full (data_len = FRAME_BYTES): no
\* trailing-zero erasure takes a place in the erasure list.  Holds in
\* SpecRsLoss.
FullFramesRecover ==
    (un.pc = "done" /\ un_ret = 0) =>
        \A k \in DOMAIN ofile :
            (/\ ~ ofile[k].zero
             /\ tab[ofile[k].f].data_len = FRAME_BYTES
             /\ TablesIntact(ofile[k].f)
             /\ LostShards(ofile[k].f) <= un.r)
            => /\ ofile[k].dev = {}
               /\ g_rs_stats.rs_fail_columns = 0

-----------------------------------------------------------------------------
(* Scenario C                                                               *)

\* Scenario C was carried out and unpack has returned
ScenarioC_Done == un.pc = "done" /\ ch.drops = 3

\* the data bytes the first 3 slice records of the container carried:
\* offsets 0 .. 3 * slice_bytes - 1 of frame 0
ScenarioC_LostBytes == 0..(3 * pk.S - 1)

\* C7 as claimed: deleting the first 3 slice records of the container of
\* the 10,000-byte input (r = 16, slice_bytes = 512) and unpacking yields
\* exact recovery of the input.
C7_ScenarioC_Claimed == ScenarioC_Done => (un_ret = 0 /\ OutputEqualsInput)

\* C7 as the code behaves: unpack returns 0 and writes 10,000 bytes; they
\* equal the input except that every non-zero input byte at an offset
\* below 1536 is written as 0 (recovery is exact only when there is
\* none); 3 slices fewer than estimated are counted good, none bad.
C7_ScenarioC_Actual ==
    ScenarioC_Done =>
        /\ un_ret = 0
        /\ 3 * pk.S = 1536
        /\ Len(ofile) = 1
        /\ ofile[1].at = 0 /\ ofile[1].f = 0 /\ ofile[1].n = 10000 /\ ~ ofile[1].zero
        /\ ofile[1].dev = {<< x, 0 >> : x \in {y \in ScenarioC_LostBytes : InByte(y) # 0}}
        /\ g_rs_stats.slices_ok = g_rs_stats.slices_total_est - 3
        /\ g_rs_stats.slices_bad = 0

C7_Witness ==
    /\ ScenarioC_Done
    /\ in_kind = "ramp"
    /\ LostShards(0) = 24
    /\ Cardinality(ofile[1].dev) = 1536
    /\ ~ OutputEqualsInput

-----------------------------------------------------------------------------
(* A slice that fails its CRC-32, a frame that is missing                   *)

\* C8: unpack of a container with slice records whose CRC-32 check fails
\* (payload or crc32_slice altered) writes the same output file, returns
\* the same value and leaves the same statistics, slices_bad excepted, as
\* unpack of the container with those records removed.
C8_BadSliceIsDroppedSlice ==
    (un.pc = "done" /\ prev.kind = "slices") =>
        /\ ofile = prev.ofile
        /\ un_ret = prev.ret
        /\ [g_rs_stats EXCEPT !.slices_bad = 0] = [prev.stats EXCEPT !.slices_bad = 0]

C8_Witness ==
    /\ un.pc = "done" /\ prev.kind = "slices"
    /\ prev.stats.slices_bad = 1 /\ g_rs_stats.slices_bad = 0
    /\ g_rs_stats.corrected_symbols > 0
    /\ \E k \in DOMAIN cfile.recs : cfile.recs[k].magic = "RSL4"
    /\ ofile = prev.ofile /\ ofile # << >>

\* the chunk unpack writes for a frame f it found nothing of
ZeroChunk(f) ==
    [at |-> f * FRAME_BYTES, f |-> f,
     n |-> Min(FRAME_BYTES, un.gh.original_size - f * FRAME_BYTES),
     zero |-> TRUE, dev |-> {}]

\* C9: for every frame of which unpack saw neither a valid frame header
\* nor a CRC-valid slice it writes min(12288, original_size - written)
\* zero bytes at the frame's place, goes on with the next frame (every
\* other frame is written as in a run on the complete file), and some
\* counter of the statistics differs from that run's.
C9_MissingFrameZeros ==
    (un.pc = "done" /\ un_ret = 0) =>
        /\ Len(ofile) = un.F
        /\ \A f \in 0..(un.F - 1) :
              /\ ofile[f + 1].f = f /\ ofile[f + 1].at = f * FRAME_BYTES
              /\ tab[f].init = 0 => ofile[f + 1] = ZeroChunk(f)
        /\ prev.kind = "frame" =>
              /\ tab[prev.f].init = 0
              /\ \A f \in 0..(un.F - 1) : f # prev.f => ofile[f + 1] = prev.ofile[f + 1]
              /\ g_rs_stats # prev.stats

C9_Witness ==
    /\ un.pc = "done" /\ un_ret = 0
    /\ prev.kind = "frame" /\ prev.f = 0 /\ un.F = 2
    /\ ofile[1] = ZeroChunk(0) /\ ofile[1].n = FRAME_BYTES
    /\ ~ ofile[2].zero /\ ofile[2].dev = {} /\ ofile[2].at = FRAME_BYTES
    /\ g_rs_stats.slices_ok < prev.stats.slices_ok

-----------------------------------------------------------------------------
(* Resynchronisation                                                        *)

\* the scan loop has ended and it was not cancelled
ScanOver == un.pc \in {"decode", "ret", "done"} /\ un_ret = 0 /\ g_cancel = 0

\* record k was written by pack, is unaltered, lies wholly before the end
\* of the file and, if bytes were inserted, starts after them
ValidRecordAfterDamage(k) ==
    /\ cfile.recs[k].genuine
    /\ cfile.recs[k].at + cfile.recs[k].nbytes <= cfile.size
    /\ ch.inserts > 0 => \E i \in 1..(k - 1) : ~ cfile.recs[i].genuine

\* C5: with bytes inserted between records (a magic followed by arbitrary
\* header fields included) or trailing bytes cut off, unpack still finds
\* and processes every valid frame-header and slice record that starts
\* after the inserted bytes and lies wholly before the truncation point.
C5_ResyncFindsAllValidRecords ==
    ScanOver => \A k \in DOMAIN cfile.recs : ValidRecordAfterDamage(k) => k \in un.hits

\* the same when the inserted bytes hold no slice magic.  Holds in
\* SpecRsResync.
C5_ResyncWithoutFakeSlice ==
    (ScanOver /\ \A i \in DOMAIN cfile.recs :
                    cfile.recs[i].genuine \/ cfile.recs[i].magic # "RSL4")
    => \A k \in DOMAIN cfile.recs : ValidRecordAfterDamage(k) => k \in un.hits

-----------------------------------------------------------------------------
(* Cancellation                                                             *)

\* every frame header and every slice of all frame_count frames is in the file
PackComplete == Len(cfile.recs) = pk.frames + pk.total_slices

\* every frame was decoded and original_size bytes were written
UnpackComplete == un.idx = un.F /\ OutLen(ofile) = un.gh.original_size

\* C6: whenever the host calls rs_request_cancel(1) and rs_request_cancel(0)
\* during pack or unpack, a return value 0 means the output is complete
\* and a return value 1 means the run stopped early with partial output.
C6_ReturnCodeTellsCompleteness ==
    /\ pk.pc = "done" /\ pk_ret = 0 => PackComplete
    /\ pk.pc = "done" /\ pk_ret = 1 => ~ PackComplete
    /\ un.pc = "done" /\ un_ret = 0 => UnpackComplete
    /\ un.pc = "done" /\ un_ret = 1 => ~ UnpackComplete

-----------------------------------------------------------------------------
(* The erasure list                                                         *)

\* frame f went through the body of the frame loop with init # 0
FrameDecoded(f) ==
    /\ un.pc \in {"decode", "ret", "done"}
    /\ f < un.idx
    /\ tab[f].init # 0

\* the codeword positions of a set, in increasing order
InIncreasingIndex(S) ==
    SelectSeq([n \in 1..(K_SHARDS + MAX_R) |-> n - 1], LAMBDA x : x \in S)

SeqElems(s) == {s[n] : n \in DOMAIN s}

\* C11: for every frame the erasure list passed to RS decode has at most r
\* entries and is the prefix, of length min(r, total), of the frame's
\* data-shard erasures in increasing shard index followed by its
\* parity-shard erasures (positions k + j) in increasing index.
C11_ErasureListIsSortedPrefix ==
    \A f \in DOMAIN tab :
        FrameDecoded(f) =>
            LET all == InIncreasingIndex(SeqElems(tab[f].eras_data))
                          \o InIncreasingIndex(SeqElems(tab[f].eras_par))
            IN  /\ Len(tab[f].erasures) <= un.r
                /\ tab[f].erasures = SubSeq(all, 1, Min(un.r, Len(all)))

\* the same for frames without trailing-zero erasures (data_len = 12288).
\* Holds in SpecRsLoss.
FullFrameErasuresSortedPrefix ==
    \A f \in DOMAIN tab :
        (FrameDecoded(f) /\ tab[f].data_len = FRAME_BYTES) =>
            LET all == InIncreasingIndex(SeqElems(tab[f].eras_data))
                          \o InIncreasingIndex(SeqElems(tab[f].eras_par))
            IN  /\ Len(tab[f].erasures) <= un.r
                /\ tab[f].erasures = SubSeq(all, 1, Min(un.r, Len(all)))

-----------------------------------------------------------------------------
(* Arguments of pack                                                        *)

\* C12: rs_pack_container_ex called with r <= 0 or r >= 64 returns a
\* negative code and does not write a container encoded with another r.
C12_InvalidRIsRejected ==
    (pk.pc = "done" /\ (a_r <= 0 \/ a_r >= MAX_R + 1)) =>
        /\ pk_ret < 0
        /\ ~ (cfile.gh.magic = "RSCT" /\ cfile.gh.r # a_r)

\* the header of the container has been written
HeaderEmitted == pk.pc \in {"grp", "stride", "ret", "done", "trap"} /\ cfile # NoFile

\* C13: for every il_depth >= 1 and slice_bytes >= 1 (values of 65536 and
\* more included) the il_depth and slice_bytes fields of the emitted
\* global header equal the arguments and are >= 1, and the pack loops use
\* those values as D and S.
C13_HeaderKeepsDepthAndSlice ==
    (HeaderEmitted /\ a_il_depth >= 1 /\ a_slice_bytes >= 1) =>
        /\ cfile.gh.il_depth = a_il_depth /\ cfile.gh.il_depth >= 1
        /\ cfile.gh.slice_bytes = a_slice_bytes /\ cfile.gh.slice_bytes >= 1
        /\ pk.D = a_il_depth /\ pk.S = a_slice_bytes

\* the same for arguments below 65536.  Holds in SpecRsArgs.
SmallDepthAndSliceKept ==
    (HeaderEmitted /\ a_il_depth \in 1..65535 /\ a_slice_bytes \in 1..65535) =>
        /\ cfile.gh.il_depth = a_il_depth
        /\ cfile.gh.slice_bytes = a_slice_bytes
        /\ pk.D = a_il_depth /\ pk.S = a_slice_bytes

-----------------------------------------------------------------------------
(* Layout and order of the records pack writes                              *)

\* the slice records of frame f, in file order
SlicesOf(f) ==
    SelectSeq(cfile.recs, LAMBDA rec : rec.magic = "RSL4" /\ rec.index = f)

RECURSIVE SumOfSizes(_, _)
SumOfSizes(sl, n) == IF n > Len(sl) THEN 0 ELSE sl[n].size + SumOfSizes(sl, n + 1)

\* the slice records of every frame announced by the header have offsets
\* 0, S, 2S, ... and sizes min(S, PAY - off), and the sizes sum to PAY;
\* k + r + pad = 255 with pad >= 0
ContainerLayoutComplete ==
    LET gh  == cfile.gh
        S   == gh.slice_bytes
        PAY == 12288 + 64 * gh.r + 2 * gh.k + 2 * gh.r
    IN  /\ gh.k + gh.r + gh.pad = 255 /\ gh.pad >= 0
        /\ \A f \in 0..(gh.frame_count - 1) :
              LET sl == SlicesOf(f)
              IN  /\ Len(sl) = (PAY + S - 1) \div S
                  /\ \A n \in DOMAIN sl :
                        /\ sl[n].offset = (n - 1) * S
                        /\ sl[n].size = Min(S, PAY - sl[n].offset)
                        /\ PiecesLen(sl[n].pay) = sl[n].size
                  /\ SumOfSizes(sl, 1) = PAY

\* C14: in every container written by a pack run that returns 0 the slice
\* records of every frame cover [0, PAY) exactly once (offsets 0, S, 2S,
\* ..., sizes min(S, PAY - off), sizes summing to PAY = 12288 + 64r + 2k +
\* 2r) and the header satisfies k + r + pad = 255 with pad >= 0.
C14_SlicesCoverPayload ==
    (pk.pc = "done" /\ pk_ret = 0) => ContainerLayoutComplete

\* the same for runs during which rs_request_cancel is not called.  Holds
\* in SpecRsArgs.
SlicesCoverPayloadUncancelled ==
    (pk.pc = "done" /\ pk_ret = 0 /\ g_cancel = 0) => ContainerLayoutComplete

\* interleave group of the frame a record belongs to
GroupOf(rec) == rec.index \div cfile.gh.il_depth

\* C15: in the record sequence written by pack, frame headers appear with
\* strictly increasing index; within a group every frame header precedes
\* every slice record, and no record of a later group precedes a record of
\* an earlier group; within a group slice offsets are non-decreasing,
\* strictly increasing for the slices of one frame, and the slices of one
\* offset appear in frame order.  (A group of depth 0 holds no record.)
C15_RecordOrder ==
    LET recs == cfile.recs
    IN  IF cfile.gh.il_depth = 0 THEN recs = << >>
        ELSE
        \A i \in DOMAIN recs : \A j \in DOMAIN recs :
          i < j =>
            /\ GroupOf(recs[i]) <= GroupOf(recs[j])
            /\ (recs[i].magic = "RSF4" /\ recs[j].magic = "RSF4")
                  => recs[i].index < recs[j].index
            /\ GroupOf(recs[i]) = GroupOf(recs[j])
                  => /\ ~ (recs[i].magic = "RSL4" /\ recs[j].magic = "RSF4")
                     /\ (recs[i].magic = "RSL4" /\ recs[j].magic = "RSL4")
                           => /\ recs[i].offset <= recs[j].offset
                              /\ recs[i].index = recs[j].index
                                    => recs[i].offset < recs[j].offset
                              /\ recs[i].offset = recs[j].offset
                                    => recs[i].index < recs[j].index

C15_Witness ==
    /\ pk.pc = "done" /\ pk_ret = 0
    /\ in_len = 30000 /\ cfile.gh.il_depth = 2 /\ pk.S = 5000 /\ pk.r = MAX_R
    /\ Len(cfile.recs) = 3 + 3 * 4
    /\ cfile.recs[1].magic = "RSF4" /\ cfile.recs[2].magic = "RSF4"
    /\ cfile.recs[3].magic = "RSL4" /\ cfile.recs[3].index = 0
    /\ cfile.recs[4].magic = "RSL4" /\ cfile.recs[4].index = 1
    /\ cfile.recs[4].offset = 0 /\ cfile.recs[5].offset = 5000
    /\ cfile.recs[11].magic = "RSF4" /\ cfile.recs[11].index = 2
    /\ cfile.recs[12].magic = "RSL4" /\ cfile.recs[12].index = 2

-----------------------------------------------------------------------------
(* Scenario A                                                               *)

\* Scenario A was carried out: the 10,000-byte input packed with r = 16
\* and the default interleave depth and slice size, the unmodified
\* container unpacked
ScenarioA_Done ==
    /\ un.pc = "done"
    /\ in_len = 10000 /\ a_r = 16
    /\ a_il_depth = IL_DEPTH_DEFAULT /\ a_slice_bytes = SLICE_BYTES_DEFAULT
    /\ ch = NoChannel

\* C16 as claimed: Scenario A gives identical output and the statistics
\* frames_total = 1, slices_ok = 25, rs_fail_columns = 0, ber_est = 0.
C16_ScenarioA_Claimed ==
    ScenarioA_Done =>
        /\ un_ret = 0 /\ OutputEqualsInput
        /\ g_rs_stats.frames_total = 1
        /\ g_rs_stats.slices_ok = 25
        /\ g_rs_stats.rs_fail_columns = 0
        /\ g_rs_stats.ber_est = << 0, 1 >>

\* C16 as the code behaves: identical output, frames_total = 1,
\* rs_fail_columns = 0, ber_est = 0, and slices_ok = 27, the number of
\* 512-byte slices of the 13,728-byte payload (12288 + 1024 + 384 + 32).
C16_ScenarioA_Actual ==
    ScenarioA_Done =>
        /\ un_ret = 0 /\ OutputEqualsInput
        /\ g_rs_stats.frames_total = 1
        /\ un.PAY = 13728
        /\ g_rs_stats.slices_ok = 27
        /\ g_rs_stats.slices_ok = g_rs_stats.slices_total_est
        /\ g_rs_stats.slices_bad = 0
        /\ g_rs_stats.rs_fail_columns = 0
        /\ g_rs_stats.ber_est = << 0, 1 >>

C16_Witness ==
    /\ ScenarioA_Done /\ in_kind = "ramp"
    /\ Len(ofile) = 1 /\ ofile[1].n = 10000 /\ ofile[1].dev = {}
    /\ Len(SelectSeq(cfile.recs, LAMBDA rec : rec.magic = "RSL4")) = 27
    /\ g_rs_stats.slices_ok = 27
    /\ g_rs_stats.used_erasures_cols = SHARD_LEN

-----------------------------------------------------------------------------
(* A damaged global header                                                  *)

\* the global header is short, or has a wrong magic, version # 4, k # 192,
\* shard_len # 64, or r outside [1, 63]
HeaderInvalid ==
    \/ cfile.size < sizeof_rsct_header_v4_t
    \/ cfile.gh.magic # "RSCT"
    \/ cfile.gh.version # 4
    \/ cfile.gh.k # 192
    \/ cfile.gh.shard_len # 64
    \/ cfile.gh.r < 1 \/ cfile.gh.r > 63

\* C17: unpack of a container whose global header is short or has a wrong
\* magic, version, k, shard_len or an r outside [1, 63] returns a negative
\* code without scanning any frame or slice record, writes no byte to the
\* output, and leaves every field of the statistics record at 0.
C17_BadHeaderIsFatal ==
    (un.pc # "idle" /\ pk.pc = "done" /\ HeaderInvalid) =>
        /\ un.pc = "done"
        /\ un_ret < 0
        /\ un.hits = {} /\ un.pos = 0 /\ tab = << >>
        /\ ofile = << >>
        /\ g_rs_stats = rs_stats_reset

C17_Witness ==
    /\ un.pc = "done" /\ un_ret = -5
    /\ cfile.gh.r = MAX_R + 1 /\ cfile.recs # << >>
    /\ prev.kind = "header" /\ prev.ret = 0
    /\ prev.stats.slices_ok > 0 /\ prev.stats.frames_total = 2
    /\ OutLen(prev.ofile) = in_len
    /\ ofile = << >>
    /\ g_rs_stats = rs_stats_reset

-----------------------------------------------------------------------------
(* A column that fails to decode                                            *)

\* the columns of frame f for which decode_rs_char returned a negative value
FailedColumns(f) == {i \in ColIdx : tab[f].ret[i + 1] < 0}

RECURSIVE FailedColumnsUpTo(_)
FailedColumnsUpTo(f) ==
    IF f < 0 THEN 0
    ELSE (IF FrameDecoded(f) THEN Cardinality(FailedColumns(f)) ELSE 0)
         + FailedColumnsUpTo(f - 1)

\* what the pad mode prescribes for data byte x of frame f when its
\* column failed
PadPolicyValue(f, x) ==
    CASE un.pad_mode = 1 -> 0
      [] un.pad_mode = 2 -> IF f > 0 /\ tab[Max(f, 1) - 1].init # 0
                            THEN PostVal(tab, f - 1, x, pk.r)
                            ELSE 0
      [] OTHER           -> BufVal(tab[f].data, x, pk.r)

\* C18: a negative return of RS decode for column i of frame idx does not
\* abort unpack; rs_fail_columns grows by exactly 1 for it, the other
\* columns are not affected (a column that did not fail holds what the
\* decoder left in code[]), and the k data bytes of column i are:
\* unchanged (RAW), 0 (ZERO), the bytes of column i of frame idx-1 if
\* that frame is initialised and 0 otherwise (TEMPORAL).
C18_FailedColumnFollowsPadMode ==
    /\ un.pc \in {"decode", "ret", "done"} =>
          /\ g_rs_stats.rs_fail_columns = FailedColumnsUpTo(un.F - 1)
          /\ un_ret >= 0
    /\ (un.pc = "done" /\ g_cancel = 0) =>
          /\ un_ret = 0 /\ un.idx = un.F
          /\ \A f \in DOMAIN tab : FrameDecoded(f) =>
                \A i \in ColIdx :
                    IF i \in FailedColumns(f)
                    THEN \A j \in 0..(K_SHARDS - 1) :
                            PostVal(tab, f, j * SHARD_LEN + i, pk.r)
                               = PadPolicyValue(f, j * SHARD_LEN + i)
                    ELSE tab[f].col[i + 1] = "rs"

C18_Witness ==
    /\ un.pc = "done" /\ un_ret = 0 /\ un.pad_mode = 2 /\ un.F = 2
    /\ FrameDecoded(0) /\ FailedColumns(0) = {}
    /\ FrameDecoded(1) /\ FailedColumns(1) = {0}
    /\ g_rs_stats.rs_fail_columns = 1
    /\ PostVal(tab, 1, 0, pk.r) = DataByte(0, 0)
    /\ PostVal(tab, 1, 0, pk.r) # DataByte(1, 0)
    /\ Len(ofile) = 2

-----------------------------------------------------------------------------
(* A cancel flag that stays set                                             *)

\* C19: while the cancel flag is set and stays set, pack starts no further
\* group and writes no further record (the offset stride in progress at
\* the moment the flag was set is the last one written) and returns 1;
\* unpack processes no further record in the scan phase, decodes and
\* writes no further frame in the decode phase, and returns 1.
C19_SetFlagStopsTheRun ==
    [][ (g_cancel = 1 /\ g_cancel' = 1) =>
          /\ pk.pc \in {"grp", "stride", "ret"} =>
                /\ cfile' = cfile
                /\ pk'.prog_slices = pk.prog_slices
                /\ pk'.pc = "done" => pk_ret' = 1
          /\ un.pc \in {"scan", "decode", "ret"} =>
                /\ un'.hits = un.hits /\ un'.pos = un.pos
                /\ un'.idx = un.idx
                /\ tab' = tab /\ ofile' = ofile
                /\ [g_rs_stats' EXCEPT !.ber_est = << 0, 1 >>]
                      = [g_rs_stats EXCEPT !.ber_est = << 0, 1 >>]
                /\ un'.pc = "done" => un_ret' = 1 ]_vars

C19_Witness ==
    /\ g_cancel = 1
    /\ pk.pc = "done" /\ pk_ret = 1
    /\ pk.fbase < pk.frames
    /\ 0 < pk.prog_slices /\ pk.prog_slices < pk.total_slices
    /\ un.pc = "done" /\ un_ret = 1
    /\ un.hits # {} /\ Cardinality(un.hits) < Len(cfile.recs)
    /\ un.idx = 0 /\ un.F = 2 /\ ofile = << >>

-----------------------------------------------------------------------------
(* The lazily initialised CRC table                                         *)

\* C20: crc16_ccitt (and crc32_calc, built the same way) returns the same
\* value for the same bytes on every call, also when the first calls are
\* made concurrently by two threads while the table is being filled: no
\* call computes a CRC from a partially initialised table.
C20_CrcTableInitRaceFree ==
    \A t \in Threads :
        thr[t].pc = "done" => thr[t].crc = crc16_ccitt(thr[t].buf)

\* a thread that ran the loop of crc16_init itself returns the right
\* value.  Holds in SpecCrcInit.
CrcRightAfterOwnInit ==
    \A t \in Threads :
        (thr[t].pc = "done" /\ thr[t].i = CrcEntries)
            => thr[t].crc = crc16_ccitt(thr[t].buf)

-----------------------------------------------------------------------------
(* The progress callback                                                    *)

\* g_cb(++prog_slices, total_slices) and g_cb(++done_slices, total_slices)
\* are the only calls of the callback: the values a call receives are those
\* of the counters after the increment.

\* ceil(PAY / slice_bytes) slices a frame
SlicesPerFrame(PAY, S) == (PAY + S - 1) \div S

\* C21: in pack and in unpack every call of the progress callback receives
\* done <= total, total = frame_count * ceil(PAY / slice_bytes), and a pack
\* that was not cancelled ends with done = total; for unpack this holds on
\* any container, also one with repeated slice records or with slices
\* whose frame_index is out of range.
C21_ProgressWithinTotal ==
    /\ pk.pc \in {"grp", "stride", "ret", "done"} =>
          /\ pk.total_slices = pk.frames * SlicesPerFrame(pk.PAY, pk.S)
          /\ pk.prog_slices <= pk.total_slices
          /\ (pk.pc = "done" /\ pk_ret = 0) => pk.prog_slices = pk.total_slices
    /\ (un.pc \in {"scan", "decode", "ret", "done"} /\ un.gh.slice_bytes # 0) =>
          /\ un.total_slices = un.F * SlicesPerFrame(un.PAY, un.gh.slice_bytes)
          /\ un.done_slices <= un.total_slices

\* Holds in SpecRsAdded: C21 for pack, and for unpack of a container in
\* which no slice record is repeated or added.
ProgressWithinTotalOwnRecords ==
    /\ pk.pc \in {"grp", "stride", "ret", "done"} =>
          /\ pk.total_slices = pk.frames * SlicesPerFrame(pk.PAY, pk.S)
          /\ pk.prog_slices <= pk.total_slices
          /\ (pk.pc = "done" /\ pk_ret = 0) => pk.prog_slices = pk.total_slices
    /\ (un.pc \in {"scan", "decode", "ret", "done"} /\ Added.dups = 0 /\ Added.forged = 0) =>
          /\ un.total_slices = un.F * SlicesPerFrame(un.PAY, un.gh.slice_bytes)
          /\ un.done_slices <= un.total_slices

-----------------------------------------------------------------------------
(* Scenario F: an input of zero bytes                                       *)

ScenarioF_Packed == in_len = 0 /\ pk.pc = "done"

ScenarioF_Unpacked == ScenarioF_Packed /\ un.pc = "done"

\* what Scenario F states of pack and unpack, the size of the container
\* file left open
ScenarioF_Rest ==
    /\ ScenarioF_Packed =>
          /\ pk_ret = 0
          /\ cfile.gh.original_size = 0 /\ cfile.gh.frame_count = 0
          /\ cfile.recs = << >>
    /\ ScenarioF_Unpacked =>
          /\ un_ret = 0
          /\ ofile = << >> /\ OutLen(ofile) = 0
          /\ g_rs_stats = [rs_stats_reset EXCEPT !.pad_mode_used = un.pad_mode]
          /\ g_rs_stats.slices_total_est = 0

\* C22 as stated: pack of a zero-length input returns 0 and writes exactly
\* the 32-byte global header with original_size = 0, frame_count = 0 and no
\* frame or slice record; unpack of that container returns 0, writes an
\* empty output file and leaves all statistics counters at 0.
C22_ScenarioF_Claimed ==
    /\ ScenarioF_Rest
    /\ ScenarioF_Packed => cfile.size = 32

\* C22, amended: the same with a global header of 36 bytes,
\* sizeof(rsct_header_v4_t).
C22_ScenarioF_Actual ==
    /\ ScenarioF_Rest
    /\ ScenarioF_Packed => cfile.size = sizeof_rsct_header_v4_t

C22_Witness ==
    /\ ScenarioF_Unpacked
    /\ cfile.size = 36 /\ cfile.gh.frame_count = 0 /\ cfile.recs = << >>
    /\ un_ret = 0 /\ ofile = << >>
    /\ g_rs_stats.frames_total = 0 /\ g_rs_stats.slices_ok = 0

-----------------------------------------------------------------------------
(* The erasure arrays of the frame loop                                     *)

\* C24: for every frame unpack decodes, the number of data-erasure
\* candidates collected (trailing zero-padding shards, the boundary shard,
\* data shards failing CRC-16) is at most k = 192, the capacity of
\* eras_data, and the number of parity candidates is at most r; also for
\* an underfull last frame whose real data shards all fail CRC-16.
C24_ErasureCandidatesFit ==
    \A f \in DOMAIN tab :
        /\ Len(tab[f].eras_data) <= K_SHARDS
        /\ Len(tab[f].eras_par) <= un.r

\* Holds in SpecRsAdded: the parity candidates fit, and the data
\* candidates of a full frame fit.
ErasureCandidatesFitFullFrame ==
    \A f \in DOMAIN tab :
        /\ Len(tab[f].eras_par) <= un.r
        /\ tab[f].data_len = FRAME_BYTES => Len(tab[f].eras_data) <= K_SHARDS

-----------------------------------------------------------------------------
(* The bounds of the four buffers of a frame                                *)

\* C25: for every slice unpack accepts (CRC-32 matches, frame_index <
\* frame_count), whatever its offset and size fields, also offset > PAY or
\* offset + size > PAY, copy_slice_into_frame writes only inside the four
\* buffers of the frame; bytes outside [0, PAY) are dropped.
C25_CopyStaysInsideBuffers ==
    \A f \in DOMAIN tab : ~ tab[f].oob

\* Holds in SpecRsAdded: no write leaves the buffers as long as every
\* slice of the file has offset <= PAY.
CopyStaysInsideForOffsetsUpToPAY ==
    (\A k \in DOMAIN cfile.recs : cfile.recs[k].offset <= payload_len_bytes(cfile.gh.r))
        => \A f \in DOMAIN tab : ~ tab[f].oob

-----------------------------------------------------------------------------
(* The filled counters of the CRC-16 tables                                 *)

\* every one of the first n bytes of a buffer was written by some slice
WrittenUpTo(runs, n) == \A x \in 0..(n - 1) : RunAt(runs, x) # {}

\* C26: for any frame, has_crc_tables is true only if every byte of both
\* CRC-16 tables (2k bytes for data, 2r bytes for parity) was written from
\* some accepted slice, also when the container holds repeated or
\* overlapping slice records of that frame.
C26_CrcTablesUsedOnlyWhenWritten ==
    \A f \in DOMAIN tab :
        (un.pc \in {"decode", "ret", "done", "trap"} /\ has_crc_tables(tab[f], un.r)) =>
            /\ WrittenUpTo(tab[f].crcD, K_SHARDS * 2)
            /\ WrittenUpTo(tab[f].crcP, un.r * 2)

\* Holds in SpecRsAdded: the same for containers in which no slice record
\* is repeated or added.
CrcTablesWrittenOwnRecords ==
    \A f \in DOMAIN tab :
        (/\ un.pc \in {"decode", "ret", "done", "trap"}
         /\ has_crc_tables(tab[f], un.r)
         /\ Added.dups = 0 /\ Added.forged = 0) =>
            /\ WrittenUpTo(tab[f].crcD, K_SHARDS * 2)
            /\ WrittenUpTo(tab[f].crcP, un.r * 2)

-----------------------------------------------------------------------------
(* Repeated positions in the erasure list                                   *)

\* C27: the erasure list passed to RS decode never holds the same codeword
\* position twice, also for an underfull last frame whose boundary shard
\* (or a trailing shard) is listed as a trailing-zero erasure and fails its
\* CRC-16 check as well.
C27_ErasuresDistinct ==
    \A f \in DOMAIN tab :
        \A m, n \in DOMAIN tab[f].erasures :
            tab[f].erasures[m] = tab[f].erasures[n] => m = n

\* Holds in SpecRsAdded: the positions are distinct for a frame whose
\* CRC-16 tables are not used.
ErasuresDistinctWithoutCrcTables ==
    \A f \in DOMAIN tab :
        ~ has_crc_tables(tab[f], un.r) =>
            \A m, n \in DOMAIN tab[f].erasures :
                tab[f].erasures[m] = tab[f].erasures[n] => m = n

-----------------------------------------------------------------------------
(* Record order and frame headers                                           *)

\* the file unpacked has no frame header of frame f
HeaderRemoved(f) ==
    ~ \E k \in DOMAIN cfile.recs : cfile.recs[k].magic = "RSF4" /\ cfile.recs[k].index = f

\* C31: for a well-formed container the output file, the return value and
\* the statistics of unpack are the same for the records in another order
\* and for frame headers removed, and every frame's data_len after the
\* scan, lazily derived or not, is the data_len pack put in its header.
C31_OrderAndHeadersImmaterial ==
    (prev.kind = "rearranged" /\ un.pc \in {"decode", "done"}) =>
        /\ \A f \in 0..(un.F - 1) :
              /\ HeaderRemoved(f) => tab[f].init = 2
              /\ tab[f].init # 0
              /\ tab[f].data_len = U16(to_read_of(in_len, FramesOf(in_len), f))
        /\ un.pc = "done" =>
              /\ ofile = prev.ofile
              /\ un_ret = prev.ret
              /\ g_rs_stats = prev.stats

\* three frames, the last underfull, all frame headers removed and the
\* first record read is no longer a record of frame 0
C31_Witness ==
    /\ prev.kind = "rearranged" /\ un.pc = "done"
    /\ un.F = 3
    /\ \A f \in 0..2 : HeaderRemoved(f) /\ tab[f].init = 2
    /\ cfile.recs[1].index # 0
    /\ tab[2].data_len = 30000 - 2 * FRAME_BYTES
    /\ ofile = prev.ofile /\ ofile # << >> /\ g_rs_stats = prev.stats

\* two frames in four records read in the order slice 1, header 1,
\* slice 0, header 0
C31_WitnessHeaderAfterSlice ==
    /\ prev.kind = "rearranged" /\ un.pc = "done"
    /\ Len(cfile.recs) = 4
    /\ cfile.recs[1].magic = "RSL4" /\ cfile.recs[1].index = 1
    /\ cfile.recs[2].magic = "RSF4" /\ cfile.recs[2].index = 1
    /\ cfile.recs[3].magic = "RSL4" /\ cfile.recs[3].index = 0
    /\ cfile.recs[4].magic = "RSF4" /\ cfile.recs[4].index = 0
    /\ tab[0].init = 2 /\ tab[1].init = 2

-----------------------------------------------------------------------------
(* Length of the output file                                                *)

\* the global header announces ceil(original_size / FRAME_BYTES) frames
FrameCountMatchesSize ==
    un.gh.frame_count = (un.gh.original_size + FRAME_BYTES - 1) \div FRAME_BYTES

\* C32: whenever unpack returns 0 for a container whose global header has
\* frame_count = ceil(original_size / 12288), the output file is exactly
\* original_size bytes long, whatever is missing or corrupt and whatever
\* the pad mode.
C32_OutputLengthIsOriginalSize ==
    (un.pc = "done" /\ un_ret = 0 /\ un.gh # NoHeader /\ FrameCountMatchesSize)
        => OutLen(ofile) = un.gh.original_size

\* the same for runs during which rs_request_cancel is not called.  Holds
\* in SpecRsTwice (slices altered, frames missing, every pad mode) and in
\* SpecRsRearranged (frame headers missing).
OutputLengthIsOriginalSizeUncancelled ==
    (un.pc = "done" /\ un_ret = 0 /\ un.gh # NoHeader /\ FrameCountMatchesSize
        /\ g_cancel = 0)
        => OutLen(ofile) = un.gh.original_size

-----------------------------------------------------------------------------
(* The cancel flag across calls                                             *)

\* C34: the cancel flag changes only in a step of rs_request_cancel (no
\* step of pack or unpack changes it), so a pack call entered and run with
\* the flag set returns 1 with a container that holds the global header
\* only, and an unpack call entered and run with the flag set returns 1
\* having read no record and written no output byte.
C34_FlagStaysSetAcrossCalls ==
    [][ /\ g_cancel' # g_cancel =>
              UNCHANGED << pk, pk_ret, cfile, un, un_ret, tab, ofile, g_rs_stats >>
        /\ (g_cancel = 1 /\ pk.pc = "ret" /\ pk'.pc = "done") =>
              /\ pk_ret' = 1
              /\ cfile'.recs = << >> /\ cfile'.size = sizeof_rsct_header_v4_t
              /\ cfile'.gh.magic = "RSCT"
        /\ (g_cancel = 1 /\ un.pc = "ret" /\ un'.pc = "done") =>
              /\ un_ret' = 1
              /\ un'.hits = {} /\ un'.idx = 0
              /\ ofile' = << >> ]_vars

\* pack was cancelled by a request made before it; unpack, called with
\* the flag still set, returns 1 with an empty output
C34_Witness ==
    /\ g_cancel = 1
    /\ in_len > 0
    /\ pk.pc = "done" /\ pk_ret = 1 /\ cfile.recs = << >>
    /\ un.pc = "done" /\ un_ret = 1 /\ ofile = << >>

\* after rs_request_cancel(0) the next call runs to its end
C34_WitnessCleared ==
    /\ g_cancel = 0
    /\ pk.pc = "done" /\ pk_ret = 1 /\ cfile.recs = << >>
    /\ un.pc = "done" /\ un_ret = 0 /\ un.idx = 2 /\ OutLen(ofile) = in_len

-----------------------------------------------------------------------------
(* Resources on return                                                      *)

\* what pack_impl acquires: the codec of init_rs_char, the two files, the
\* five per-group arrays, the frame buffers of the current group
PackResources == {"pk.rs", "pk.fi", "pk.fo", "pk.arrays", "pk.group"}

\* what rs_unpack_internal acquires: the codec, the two files, tab, the
\* buffers of the initialised slots of tab, the codeword buffer
UnpackResources == {"un.rs", "un.fi", "un.fo", "un.tab", "un.frames", "un.code"}

\* C35: when pack or unpack has returned, with whatever value, every file
\* the call opened is closed and every resource it acquired (frame
\* buffers, per-group arrays, codeword buffer, RS codec state) is released.
C35_EverythingReleasedOnReturn ==
    /\ pk.pc = "done" => held \cap PackResources = {}
    /\ un.pc = "done" => held \cap UnpackResources = {}

\* on return, files are closed and all memory but the codec state is
\* released; a call that returns a negative value holds nothing (the codec
\* state of a preceding unpack run stays held).  Holds in SpecRoundTrip,
\* SpecRsCancel, SpecRsHeader and SpecRsArgs.
AllButCodecReleasedOnReturn ==
    /\ pk.pc = "done" =>
          held \cap PackResources = (IF pk_ret < 0 THEN {} ELSE {"pk.rs"})
    /\ un.pc = "done" =>
          held \cap UnpackResources =
              (IF un_ret < 0 /\ prev.kind = "none" THEN {} ELSE {"un.rs"})

-----------------------------------------------------------------------------
(* Termination of pack                                                      *)

\* C36: rs_pack_container_ex returns for every input, every r and every
\* il_depth >= 1 and slice_bytes >= 1 when the cancel flag is never set.
C36_PackTerminates ==
    (a_il_depth >= 1 /\ a_slice_bytes >= 1) => <>(pk.pc = "done")

\* the group loop advances the frame cursor and the offset loop advances
\* the offset whenever il_depth and slice_bytes are not multiples of 65536.
\* Holds in SpecRsArgs.
LoopsAdvanceForNonzeroU16 ==
    [][ (U16(a_il_depth) # 0 /\ U16(a_slice_bytes) # 0) =>
          /\ (pk.pc = "stride" /\ pk'.pc = "grp") => pk'.fbase > pk.fbase
          /\ (pk.pc = "stride" /\ pk'.pc = "stride") => pk'.off > pk.off ]_vars

\* pack returns whenever the 16-bit values of il_depth and slice_bytes are
\* not 0 (a value <= 0 is replaced by the default).  Holds in
\* SpecRsArgsFair.
PackTerminatesForNonzeroU16 ==
    (/\ a_il_depth > 0 => U16(a_il_depth) # 0
     /\ a_slice_bytes > 0 => U16(a_slice_bytes) # 0) => <>(pk.pc = "done")

-----------------------------------------------------------------------------
(* Properties of the jammer detector                                        *)

\* C37: a detection pass that returns CompletedNoSustain leaves the source
\* as it found it, so the pass the main loop runs next obtains frames from
\* the same source again.
C37_CompletedPassLeavesSourceUsable ==
    [][(det.pc = "run" /\ det'.pc = "ret" /\ out' = "CompletedNoSustain")
         => rxbuf_' = rxbuf_]_vars

\* what the code does instead: from the second pass on the buffer is gone,
\* no read of get_frame delivers a frame, and the pass never returns
\* SustainedJammer
LaterPassesGetNoFrame ==
    (passes >= 2 /\ main_pc = "pass") =>
        /\ ~ rxbuf_
        /\ \A i \in 1..Len(seen) : ~ seen[i].ok
        /\ det.pc = "ret" => out # "SustainedJammer"

\* a first pass that read frames and returned CompletedNoSustain, followed by
\* a second pass whose first read failed
LaterPassEndedWithoutFrame ==
    /\ passes = 2 /\ det.pc = "ret" /\ out = "SourceEnded"
    /\ p_.detect_max_frames >= 1
    /\ seen = << [ok |-> FALSE, pd |-> threshold_dbm] >>

\* reads (i - k + 1)..i of s all delivered a frame of power strictly above
\* the threshold
JammerRunEndsAt(s, i, k) ==
    /\ i >= k
    /\ \A j \in (i - k + 1)..i : s[j].ok /\ s[j].pd > threshold_dbm

\* the number of frames at the end of s, failed reads left out, that follow
\* the last frame at or below the threshold
RECURSIVE ConsecutiveAtEnd(_)
ConsecutiveAtEnd(s) ==
    IF s = << >> THEN 0
    ELSE LET last == s[Len(s)]
             rest == SubSeq(s, 1, Len(s) - 1)
         IN  IF ~ last.ok THEN ConsecutiveAtEnd(rest)
             ELSE IF last.pd <= threshold_dbm THEN 0
             ELSE ConsecutiveAtEnd(rest) + 1

\* C38: for jammer_consecutive >= 1, Detector::run returns SustainedJammer
\* exactly when the reads end with the first run of jammer_consecutive
\* consecutive frames strictly above threshold_dbm within the first
\* max_frames reads, SourceEnded when a read failed before such a run, and
\* CompletedNoSustain when max_frames frames were read without one; the
\* count is the number of frames since the last one at or below the
\* threshold.
C38_OutcomeOfDetectorRun ==
    (det.pc \in {"run", "ret"} /\ p_.detect_jammer_consecutive >= 1) =>
        LET k == p_.detect_jammer_consecutive
            n == Len(seen)
        IN  /\ n <= p_.detect_max_frames
            /\ det.jam_cnt = ConsecutiveAtEnd(seen)
            /\ \A i \in 1..(n - 1) : seen[i].ok /\ ~ JammerRunEndsAt(seen, i, k)
            /\ det.pc = "ret" =>
                 /\ out = "SustainedJammer" <=> JammerRunEndsAt(seen, n, k)
                 /\ out = "SourceEnded" <=> (n >= 1 /\ ~ seen[n].ok)
                 /\ out = "CompletedNoSustain" <=>
                       /\ n = p_.detect_max_frames
                       /\ \A i \in 1..n : seen[i].ok
                       /\ ~ JammerRunEndsAt(seen, n, k)

\* a count that was reset by a frame at the threshold, then a sustained run
C38_Witness ==
    /\ det.pc = "ret" /\ out = "SustainedJammer"
    /\ p_.detect_jammer_consecutive = 2
    /\ Len(seen) = 4
    /\ seen[1].pd > threshold_dbm /\ seen[2].pd = threshold_dbm

\* a failed read after a frame above the threshold
C38_WitnessSourceEnded ==
    /\ det.pc = "ret" /\ out = "SourceEnded"
    /\ p_.detect_jammer_consecutive = 2
    /\ Len(seen) = 2 /\ seen[1].pd > threshold_dbm

\* all max_frames frames read, none of them starting a run
C38_WitnessCompleted ==
    /\ det.pc = "ret" /\ out = "CompletedNoSustain"
    /\ p_.detect_jammer_consecutive = 2
    /\ Len(seen) = 3 /\ seen[1].pd > threshold_dbm /\ seen[3].pd > threshold_dbm
=============================================================================
